---- MODULE Spec2Model ----
(***************************************************************************)
(* Secondary-camera analysis, risk assessment and violation suppression    *)
(* of the proctoring AI service:                                           *)
(*   ai_service/modules/secondary_camera_analyzer.py (SecondaryCamera-     *)
(*   Analyzer), ai_service/modules/multi_camera.py (MultiCameraManager),   *)
(*   ai_service/main.py (ProctorSession, ConnectionManager.process_frame,  *)
(*   analyze_secondary_camera_direct).                                     *)
(*                                                                         *)
(* Numbers.  Every score of the program is a float in [0,1].  The model    *)
(* keeps them as integers counted in units of 1/One; One is chosen so that *)
(* every quotient the code forms (x/130, x/50, x/100, x/10, /2, /3, the    *)
(* weights 0.3 and 0.2) is exact for integer pixel statistics, so no       *)
(* threshold comparison is blurred by rounding.  Pixel statistics          *)
(* (brightness, variance, contrast, blur) are integers; areas are in       *)
(* thousandths of the frame area, centres in hundredths of the frame       *)
(* height, aspect ratios in tenths.                                        *)
(*                                                                         *)
(* A frame is what the decoder, the OpenCV primitives and the two external *)
(* classifiers yield for it; the detectors of the analyzer are computed    *)
(* from that as the code computes them.  Left out: timestamps              *)
(* (cv2.getTickCount), message texts of violations, bounding boxes and     *)
(* x-coordinates, which no decision of the code reads.                     *)
(***************************************************************************)
EXTENDS Integers, Sequences, FiniteSets, TLC

One == 39 * 1000

\* n/d of 1.0
Frac(n, d) == (n * One) \div d

\* Python's None
None == [py_none |-> TRUE]

\* dict.get(key, default)
Get(d, k, default) == IF k \in DOMAIN d THEN d[k] ELSE default

Min(a, b) == IF a < b THEN a ELSE b
Max(a, b) == IF a > b THEN a ELSE b
Abs(a) == IF a < 0 THEN 0 - a ELSE a

RECURSIVE SeqMax(_)
SeqMax(s) == IF s = <<>> THEN 0 ELSE Max(Head(s), SeqMax(Tail(s)))

RECURSIVE SeqSum(_)
SeqSum(s) == IF s = <<>> THEN 0 ELSE Head(s) + SeqSum(Tail(s))

MapSeq(s, Op(_)) == [i \in 1..Len(s) |-> Op(s[i])]

\* self.history_size of SecondaryCameraAnalyzer
history_size == 10

(***************************************************************************)
(* SecondaryCameraAnalyzer: the four detectors                             *)
(***************************************************************************)

\* IsBlackOrInvalidFrame without the variance test
IsBlackOrInvalidFrame_BrightnessOnly(f) == f.brightness < 10

\* _is_black_or_invalid_frame: np.mean(frame) < 10, else np.var(gray) < 10
IsBlackOrInvalidFrame(f) ==
    IF f.brightness < 10 THEN TRUE
    ELSE IF f.variance < 10 THEN TRUE
    ELSE FALSE

\* _check_typing_position: at least one centre in the lower 60% of the frame
CheckTypingPosition(hand_positions) ==
    IF Len(hand_positions) < 1 THEN FALSE
    ELSE Cardinality({i \in 1..Len(hand_positions) :
                        hand_positions[i].center_y > 40}) >= 1

HandPlacementError ==
    [hands_detected |-> 0, hands_visible |-> FALSE, hand_positions |-> <<>>,
     total_hand_area |-> 0, hands_in_typing_position |-> FALSE,
     confidence |-> 0, analysis_quality |-> "error", error |-> "exception"]

\* HandConfidence with the typing-position test lost
HandConfidence_NoTyping(hands_detected, hands_in_typing_position) ==
    IF hands_detected > 0 THEN Frac(9, 10) ELSE 0

\* hand confidence: 0.9 visible and typing, 0.7 visible, 0 otherwise
HandConfidence(hands_detected, hands_in_typing_position) ==
    IF hands_detected > 0 /\ hands_in_typing_position THEN Frac(9, 10)
    ELSE IF hands_detected > 0 THEN Frac(7, 10)
    ELSE 0

\* _analyze_hand_placement; f.skin_contours are the external contours of the
\* cleaned skin mask (area in 1/1000 of the frame, convexity defects, centre)
AnalyzeHandPlacement(f) ==
    IF f.hand_raises THEN HandPlacementError
    ELSE
    LET hand_contours == SelectSeq(f.skin_contours,
            LAMBDA c : 2 < c.area /\ c.area < 800
                       /\ (c.defects >= 1 \/ c.area > 50))
        hands_detected == Len(hand_contours)
        hand_positions == MapSeq(hand_contours,
            LAMBDA c : [center_y |-> c.center_y, area_ratio |-> c.area])
        typing == CheckTypingPosition(hand_positions)
    IN [hands_detected |-> hands_detected,
        hands_visible |-> hands_detected > 0,
        hand_positions |-> hand_positions,
        total_hand_area |-> SeqSum(MapSeq(hand_positions, LAMBDA p : p.area_ratio)),
        hands_in_typing_position |-> typing,
        confidence |-> HandConfidence(hands_detected, typing),
        analysis_quality |-> IF hands_detected >= 1 THEN "good" ELSE "poor"]

KeyboardVisibilityError ==
    [keyboard_visible |-> FALSE, keyboard_detections |-> <<>>,
     keyboard_like_regions |-> <<>>, positioning_score |-> 0,
     confidence |-> 0, analysis_quality |-> "error", error |-> "exception"]

\* RegionConfidence without the cap at 1.0
RegionConfidence_Uncapped(area) == (area * One) \div 100

\* confidence of an edge-detected region: min(1.0, area / (frame_area * 0.1))
RegionConfidence(area) == Min(One, (area * One) \div 100)

\* the placeholder region of the hand-inference fallback
HandInferenceRegion ==
    [area |-> 0, aspect_ratio |-> 0, center_y |-> 0,
     confidence |-> Frac(5, 10), detection_method |-> "hand_inference"]

\* _analyze_keyboard_visibility; f.objects are the detections the object
\* classifier returns for context 'secondary', f.edge_contours the external
\* contours of the Canny edge map
AnalyzeKeyboardVisibility(f) ==
    IF f.keyboard_raises THEN KeyboardVisibilityError
    ELSE
    LET detections == IF f.object_raises THEN <<>> ELSE f.objects
        keyboard_detections == SelectSeq(detections,
            LAMBDA d : d.class \in {"laptop", "keyboard"})
        rect == SelectSeq(f.edge_contours,
            LAMBDA c : c.area > 10 /\ c.vertices >= 4
                       /\ 12 < c.aspect_ratio /\ c.aspect_ratio < 80)
        regions == MapSeq(rect,
            LAMBDA c : [area |-> c.area, aspect_ratio |-> c.aspect_ratio,
                        center_y |-> c.center_y,
                        confidence |-> RegionConfidence(c.area)])
        visible == Len(keyboard_detections) > 0 \/ Len(regions) > 0
        positioned == IF visible
            THEN Max(SeqMax(MapSeq(keyboard_detections,
                        LAMBDA d : IF d.center_y > 40 THEN d.confidence ELSE 0)),
                     SeqMax(MapSeq(regions,
                        LAMBDA r : IF r.center_y > 40 THEN r.confidence ELSE 0)))
            ELSE 0
        \* "TEMPORARY FALLBACK": taken whenever nothing was detected
        fallback == ~visible
        keyboard_like_regions ==
            IF fallback THEN Append(regions, HandInferenceRegion) ELSE regions
    IN [keyboard_visible |-> IF fallback THEN TRUE ELSE visible,
        keyboard_detections |-> keyboard_detections,
        keyboard_like_regions |-> keyboard_like_regions,
        positioning_score |-> IF fallback THEN Frac(5, 10) ELSE positioned,
        confidence |-> Max(SeqMax(MapSeq(keyboard_detections, LAMBDA d : d.confidence)),
                           SeqMax(MapSeq(keyboard_like_regions, LAMBDA r : r.confidence))),
        analysis_quality |-> IF fallback \/ visible THEN "good" ELSE "needs_adjustment",
        detection_method |->
            IF \E i \in 1..Len(keyboard_detections) : keyboard_detections[i].class = "laptop"
            THEN "laptop_detection" ELSE "keyboard_detection"]

FaceCoverageError ==
    [face_coverage |-> [faces_in_secondary_view |-> 0,
                        appropriate_coverage |-> TRUE,
                        coverage_quality |-> "unknown"],
     face_detection_results |-> <<>>,
     confidence |-> 0, analysis_quality |-> "error", error |-> "exception"]

\* FaceDetector._detect_face_movement on the primary face, the detector's
\* prev_pos being prev_pos: the verdict and prev_pos afterwards.  Of the
\* position (x, y) only x is read.
DetectFaceMovement(face, prev_pos) ==
    IF prev_pos = None
    THEN [movement |-> "stable", prev_pos |-> [x |-> face.center_x]]
    ELSE [movement |-> IF Abs(face.center_x - prev_pos.x) > 40
                       THEN "moving" ELSE "stable",
          prev_pos |-> [x |-> face.center_x]]

\* FaceDetector.analyze_frame on frame f: the result dict and the detector's
\* prev_pos afterwards.  f.faces is what the face classifier yields; an
\* exception of the classifier is caught here and reported as a violation of
\* type error.
FaceDetectorAnalyzeFrame(f, prev_pos) ==
    LET faces == SelectSeq(f.faces, LAMBDA face : face.confidence >= Frac(90, 100))
        Result(n, violations, direction, confidence) ==
            [faces_detected |-> n, violations |-> violations,
             gaze_data |-> [direction |-> direction], confidence |-> confidence]
    IN IF f.brightness < 50
       THEN [result |-> Result(0, <<[type |-> "no_face", severity |-> "high"]>>,
                               "center", 0),
             prev_pos |-> prev_pos]
       ELSE IF f.face_classifier_raises
       THEN [result |-> Result(0, <<[type |-> "error", severity |-> "high"]>>,
                               "center", 0),
             prev_pos |-> prev_pos]
       ELSE IF faces = <<>>
       THEN [result |-> Result(0, <<[type |-> "no_face", severity |-> "high"]>>,
                               "center", Frac(99, 100)),
             prev_pos |-> prev_pos]
       ELSE IF Len(faces) > 1
       THEN [result |-> Result(Len(faces),
                               <<[type |-> "multiple_faces", severity |-> "critical"]>>,
                               "center", Frac(99, 100)),
             prev_pos |-> prev_pos]
       ELSE
       LET primary_face == faces[1]
           gaze == IF primary_face.gaze \in {"down", "left", "right", "up"}
                   THEN <<[type |-> "gaze_violation",
                           severity |-> IF primary_face.gaze = "down"
                                        THEN "high" ELSE "medium"]>>
                   ELSE <<>>
           moved == DetectFaceMovement(primary_face, prev_pos)
           movement == IF moved.movement = "moving"
                       THEN <<[type |-> "movement", severity |-> "low"]>>
                       ELSE <<>>
       IN [result |-> Result(1, gaze \o movement, primary_face.gaze, Frac(99, 100)),
           prev_pos |-> moved.prev_pos]

\* AnalyzeFaceCoverage taking a face without violations as appropriate
AnalyzeFaceCoverage_FrontalAppropriate(f, prev_pos) ==
    IF f.face_raises THEN FaceCoverageError
    ELSE
    LET face_results == FaceDetectorAnalyzeFrame(f, prev_pos).result
        faces_detected == Get(face_results, "faces_detected", 0)
        coverage ==
            IF faces_detected > 0
            THEN [faces_in_secondary_view |-> faces_detected,
                  appropriate_coverage |-> TRUE,
                  coverage_quality |-> "appropriate"]
            ELSE [faces_in_secondary_view |-> faces_detected,
                  appropriate_coverage |-> TRUE,
                  coverage_quality |-> "none"]
    IN [face_coverage |-> coverage,
        face_detection_results |-> face_results,
        confidence |-> Get(face_results, "confidence", 0),
        analysis_quality |-> "good"]

\* _analyze_face_coverage on frame f, the face detector's prev_pos being
\* prev_pos
AnalyzeFaceCoverage(f, prev_pos) ==
    IF f.face_raises THEN FaceCoverageError
    ELSE
    LET face_results == FaceDetectorAnalyzeFrame(f, prev_pos).result
        faces_detected == Get(face_results, "faces_detected", 0)
        violations == Get(face_results, "violations", <<>>)
        coverage ==
            IF faces_detected > 0
            THEN IF violations = <<>>
                 THEN [faces_in_secondary_view |-> faces_detected,
                       appropriate_coverage |-> FALSE,
                       coverage_quality |-> "too_detailed"]
                 ELSE [faces_in_secondary_view |-> faces_detected,
                       appropriate_coverage |-> TRUE,
                       coverage_quality |-> "appropriate"]
            ELSE [faces_in_secondary_view |-> faces_detected,
                  appropriate_coverage |-> TRUE,
                  coverage_quality |-> "none"]
    IN [face_coverage |-> coverage,
        face_detection_results |-> face_results,
        confidence |-> Get(face_results, "confidence", 0),
        analysis_quality |-> "good"]

\* _detect_workspace_elements; f.horizontal_lines counts the Hough lines
\* within 15 degrees of horizontal
DetectWorkspaceElements(f) ==
    [desk_surface_visible |-> f.horizontal_lines > 2,
     horizontal_lines_detected |-> f.horizontal_lines,
     workspace_structure_score |-> Min(One, (f.horizontal_lines * One) \div 10)]

\* _calculate_lighting_score
CalculateLightingScore(brightness, contrast) ==
    LET brightness_score == Max(0, One - (Abs(brightness - 130) * One) \div 130)
        contrast_score == Min(One, (contrast * One) \div 50)
    IN (brightness_score + contrast_score) \div 2

\* _calculate_workspace_compliance_score
CalculateWorkspaceComplianceScore(brightness, contrast, blur_score, workspace_elements, object_results) ==
    LET lighting_score == CalculateLightingScore(brightness, contrast)
        sharpness_score == IF blur_score > 100 THEN One
                           ELSE (blur_score * One) \div 100
        workspace_score == Get(workspace_elements, "workspace_structure_score", 0)
        prohibited_penalty == Len(Get(object_results, "detections", <<>>)) * Frac(2, 10)
        compliance_score == (lighting_score + sharpness_score + workspace_score) \div 3
    IN Max(0, compliance_score - prohibited_penalty)

WorkspaceComplianceError ==
    [lighting_quality |-> [quality_score |-> 0],
     image_quality |-> [is_sharp |-> FALSE],
     workspace_elements |-> <<>>,
     prohibited_objects |-> <<>>,
     compliance_score |-> 0, analysis_quality |-> "error", error |-> "exception"]

\* _analyze_workspace_compliance (object detection is skipped there)
AnalyzeWorkspaceCompliance(f) ==
    IF f.workspace_raises THEN WorkspaceComplianceError
    ELSE
    LET object_results == [detections |-> <<>>, status |-> "clear"]
        workspace_visible == DetectWorkspaceElements(f)
    IN [lighting_quality |-> [brightness |-> f.brightness, contrast |-> f.contrast,
                              quality_score |-> CalculateLightingScore(f.brightness, f.contrast)],
        image_quality |-> [blur_score |-> f.blur_score, is_sharp |-> f.blur_score > 100],
        workspace_elements |-> workspace_visible,
        prohibited_objects |-> object_results.detections,
        compliance_score |-> CalculateWorkspaceComplianceScore(
            f.brightness, f.contrast, f.blur_score, workspace_visible, object_results),
        analysis_quality |-> "good"]

(***************************************************************************)
(* SecondaryCameraAnalyzer: aggregation, risk, violations, history         *)
(***************************************************************************)

\* ComplianceStatus with the thresholds 0.8, 0.6, 0.4
ComplianceStatus_Before(overall_score) ==
    IF overall_score >= Frac(8, 10) THEN "excellent"
    ELSE IF overall_score >= Frac(6, 10) THEN "good"
    ELSE IF overall_score >= Frac(4, 10) THEN "acceptable"
    ELSE "needs_improvement"

\* the status bucket of _calculate_overall_compliance
ComplianceStatus(overall_score) ==
    IF overall_score >= Frac(6, 10) THEN "excellent"
    ELSE IF overall_score >= Frac(4, 10) THEN "good"
    ELSE IF overall_score >= Frac(3, 10) THEN "acceptable"
    ELSE "needs_improvement"

\* CalculateOverallCompliance counting the confidence of hands and keyboard
\* whether visible or not
CalculateOverallCompliance_IgnoreVisible(hand_analysis, keyboard_analysis, face_analysis, workspace_analysis) ==
    LET hand_score == Get(hand_analysis, "confidence", 0)
        keyboard_score == Get(keyboard_analysis, "confidence", 0)
        face_score == IF Get(Get(face_analysis, "face_coverage", <<>>), "appropriate_coverage", FALSE)
                      THEN One ELSE Frac(5, 10)
        workspace_score == Get(workspace_analysis, "compliance_score", 0)
        overall_score == (3 * hand_score + 3 * keyboard_score
                          + 2 * face_score + 2 * workspace_score) \div 10
    IN [overall_score |-> overall_score,
        status |-> ComplianceStatus(overall_score),
        component_scores |-> [hands |-> hand_score, keyboard |-> keyboard_score,
                              face |-> face_score, workspace |-> workspace_score]]

\* _calculate_overall_compliance: weights hands 0.3, keyboard 0.3, face 0.2,
\* workspace 0.2
CalculateOverallCompliance(hand_analysis, keyboard_analysis, face_analysis, workspace_analysis) ==
    LET hand_score == IF Get(hand_analysis, "hands_visible", FALSE)
                      THEN Get(hand_analysis, "confidence", 0) ELSE 0
        keyboard_score == IF Get(keyboard_analysis, "keyboard_visible", FALSE)
                          THEN Get(keyboard_analysis, "confidence", 0) ELSE 0
        face_score == IF Get(Get(face_analysis, "face_coverage", <<>>), "appropriate_coverage", FALSE)
                      THEN One ELSE Frac(5, 10)
        workspace_score == Get(workspace_analysis, "compliance_score", 0)
        overall_score == (3 * hand_score + 3 * keyboard_score
                          + 2 * face_score + 2 * workspace_score) \div 10
    IN [overall_score |-> overall_score,
        status |-> ComplianceStatus(overall_score),
        component_scores |-> [hands |-> hand_score, keyboard |-> keyboard_score,
                              face |-> face_score, workspace |-> workspace_score]]

\* _generate_recommendations (texts abbreviated)
GenerateRecommendations(analysis_result) ==
    LET hand_analysis == Get(analysis_result, "hand_placement", <<>>)
        keyboard_analysis == Get(analysis_result, "keyboard_visibility", <<>>)
        face_coverage == Get(Get(analysis_result, "face_coverage", <<>>), "face_coverage", <<>>)
        workspace_analysis == Get(analysis_result, "workspace_compliance", <<>>)
        r1 == IF ~Get(hand_analysis, "hands_visible", FALSE)
              THEN <<"hands_not_visible">>
              ELSE IF ~Get(hand_analysis, "hands_in_typing_position", FALSE)
              THEN <<"hands_not_typing">> ELSE <<>>
        r2 == IF ~Get(keyboard_analysis, "keyboard_visible", FALSE)
              THEN <<"keyboard_not_visible">>
              ELSE IF Get(keyboard_analysis, "positioning_score", 0) < Frac(5, 10)
              THEN <<"keyboard_position">> ELSE <<>>
        r3 == IF Get(face_coverage, "coverage_quality", "") = "too_detailed"
              THEN <<"less_facial_detail">> ELSE <<>>
        r4 == IF Get(Get(workspace_analysis, "lighting_quality", <<>>), "quality_score", 0) < Frac(6, 10)
              THEN <<"improve_lighting">> ELSE <<>>
        r5 == IF ~Get(Get(workspace_analysis, "image_quality", <<>>), "is_sharp", TRUE)
              THEN <<"stabilise_camera">> ELSE <<>>
        recommendations == r1 \o r2 \o r3 \o r4 \o r5
    IN IF recommendations = <<>> THEN <<"setup_looks_good">> ELSE recommendations

\* AssessViolationRisk with the thresholds 0.8 / 0.6 / 0.4 it had before
AssessViolationRisk_Old(analysis_result) ==
    LET overall_score == Get(Get(analysis_result, "overall_compliance", <<>>), "overall_score", 0)
        risk == IF overall_score >= Frac(8, 10)
                    THEN [risk_level |-> "low", confidence |-> Frac(9, 10)]
                ELSE IF overall_score >= Frac(6, 10)
                    THEN [risk_level |-> "medium", confidence |-> Frac(8, 10)]
                ELSE IF overall_score >= Frac(4, 10)
                    THEN [risk_level |-> "high", confidence |-> Frac(7, 10)]
                ELSE [risk_level |-> "very_high", confidence |-> Frac(9, 10)]
    IN [risk_level |-> risk.risk_level,
        confidence |-> risk.confidence,
        score |-> overall_score,
        prevention_effectiveness |-> overall_score]

\* AssessViolationRisk reading overall_score from the wrong dict
AssessViolationRisk_WrongKey(analysis_result) ==
    LET overall_score == Get(analysis_result, "overall_score", 0)
        risk == IF overall_score >= Frac(5, 10)
                    THEN [risk_level |-> "low", confidence |-> Frac(9, 10)]
                ELSE IF overall_score >= Frac(3, 10)
                    THEN [risk_level |-> "medium", confidence |-> Frac(8, 10)]
                ELSE IF overall_score >= Frac(2, 10)
                    THEN [risk_level |-> "high", confidence |-> Frac(7, 10)]
                ELSE [risk_level |-> "very_high", confidence |-> Frac(9, 10)]
    IN [risk_level |-> risk.risk_level,
        confidence |-> risk.confidence,
        score |-> overall_score,
        prevention_effectiveness |-> overall_score]

\* AssessViolationRisk pairing medium with confidence 0.6
AssessViolationRisk_MediumUnsure(analysis_result) ==
    LET overall_score == Get(Get(analysis_result, "overall_compliance", <<>>), "overall_score", 0)
        risk == IF overall_score >= Frac(5, 10)
                    THEN [risk_level |-> "low", confidence |-> Frac(9, 10)]
                ELSE IF overall_score >= Frac(3, 10)
                    THEN [risk_level |-> "medium", confidence |-> Frac(6, 10)]
                ELSE IF overall_score >= Frac(2, 10)
                    THEN [risk_level |-> "high", confidence |-> Frac(7, 10)]
                ELSE [risk_level |-> "very_high", confidence |-> Frac(9, 10)]
    IN [risk_level |-> risk.risk_level,
        confidence |-> risk.confidence,
        score |-> overall_score,
        prevention_effectiveness |-> overall_score]

\* _assess_violation_risk
AssessViolationRisk(analysis_result) ==
    LET overall_score == Get(Get(analysis_result, "overall_compliance", <<>>), "overall_score", 0)
        risk == IF overall_score >= Frac(5, 10)
                    THEN [risk_level |-> "low", confidence |-> Frac(9, 10)]
                ELSE IF overall_score >= Frac(3, 10)
                    THEN [risk_level |-> "medium", confidence |-> Frac(8, 10)]
                ELSE IF overall_score >= Frac(2, 10)
                    THEN [risk_level |-> "high", confidence |-> Frac(7, 10)]
                ELSE [risk_level |-> "very_high", confidence |-> Frac(9, 10)]
    IN [risk_level |-> risk.risk_level,
        confidence |-> risk.confidence,
        score |-> overall_score,
        prevention_effectiveness |-> overall_score]

Violation(type, severity, confidence) ==
    [type |-> type, severity |-> severity, confidence |-> confidence,
     source |-> "secondary_camera"]

\* GenerateSecondaryCameraViolations without the typing-position rule and
\* with the workspace rule at <= 0.4
GenerateSecondaryCameraViolations_FourRules(analysis_result) ==
    IF Get(analysis_result, "status", "") # "success" THEN <<>>
    ELSE
    LET analysis == Get(analysis_result, "analysis", <<>>)
        hand_analysis == Get(analysis, "hand_placement", <<>>)
        keyboard_analysis == Get(analysis, "keyboard_visibility", <<>>)
        face_coverage == Get(Get(analysis, "face_coverage", <<>>), "face_coverage", <<>>)
        workspace_analysis == Get(analysis, "workspace_compliance", <<>>)
        v1 == IF ~Get(hand_analysis, "hands_visible", FALSE)
              THEN <<[type |-> "secondary_camera_hands_not_visible", severity |-> "high",
                      confidence |-> Frac(9, 10), source |-> "secondary_camera"]>>
              ELSE <<>>
        v2 == IF ~Get(keyboard_analysis, "keyboard_visible", FALSE)
              THEN <<[type |-> "secondary_camera_keyboard_not_visible", severity |-> "high",
                      confidence |-> Frac(9, 10), source |-> "secondary_camera"]>>
              ELSE <<>>
        v3 == IF Get(face_coverage, "coverage_quality", "") = "too_detailed"
              THEN <<[type |-> "secondary_camera_excessive_face_detail",
                      severity |-> "medium", confidence |-> Frac(8, 10),
                      source |-> "secondary_camera"]>>
              ELSE <<>>
        v4 == IF Get(workspace_analysis, "compliance_score", One) <= Frac(4, 10)
              THEN <<[type |-> "secondary_camera_workspace_non_compliant",
                      severity |-> "medium", confidence |-> Frac(7, 10),
                      source |-> "secondary_camera"]>>
              ELSE <<>>
    IN v1 \o v2 \o v3 \o v4

\* generate_secondary_camera_violations
GenerateSecondaryCameraViolations(analysis_result) ==
    IF Get(analysis_result, "status", "") # "success" THEN <<>>
    ELSE
    LET analysis == Get(analysis_result, "analysis", <<>>)
        hand_analysis == Get(analysis, "hand_placement", <<>>)
        keyboard_analysis == Get(analysis, "keyboard_visibility", <<>>)
        face_coverage == Get(Get(analysis, "face_coverage", <<>>), "face_coverage", <<>>)
        workspace_analysis == Get(analysis, "workspace_compliance", <<>>)
        v1 == IF ~Get(hand_analysis, "hands_visible", FALSE)
              THEN <<Violation("secondary_camera_hands_not_visible", "high", Frac(9, 10))>>
              ELSE <<>>
        v2 == IF ~Get(keyboard_analysis, "keyboard_visible", FALSE)
              THEN <<Violation("secondary_camera_keyboard_not_visible", "high", Frac(9, 10))>>
              ELSE <<>>
        v3 == IF Get(face_coverage, "coverage_quality", "") = "too_detailed"
              THEN <<Violation("secondary_camera_excessive_face_detail", "medium", Frac(8, 10))>>
              ELSE <<>>
        v4 == IF Get(workspace_analysis, "compliance_score", One) < Frac(4, 10)
              THEN <<Violation("secondary_camera_workspace_non_compliant", "medium", Frac(7, 10))>>
              ELSE <<>>
        v5 == IF Get(hand_analysis, "hands_visible", FALSE)
                 /\ ~Get(hand_analysis, "hands_in_typing_position", FALSE)
              THEN <<Violation("secondary_camera_hands_not_in_typing_position", "medium", Frac(6, 10))>>
              ELSE <<>>
    IN v1 \o v2 \o v3 \o v4 \o v5

\* UpdateAnalysisHistory dropping the newest entry beyond history_size
UpdateAnalysisHistory_DropNewest(history, analysis_result) ==
    LET appended == Append(history, analysis_result)
    IN IF Len(appended) > history_size
       THEN SubSeq(appended, 1, history_size) ELSE appended

\* _update_analysis_history: append, then drop the oldest beyond history_size
UpdateAnalysisHistory(history, analysis_result) ==
    LET appended == Append(history, analysis_result)
    IN IF Len(appended) > history_size THEN Tail(appended) ELSE appended

\* CalculateStabilityScore over the whole history
CalculateStabilityScore_WholeHistory(history) ==
    IF Len(history) < 3 THEN Frac(5, 10)
    ELSE
    LET n == Len(history)
        scores == MapSeq(history, LAMBDA r :
            Get(Get(r, "overall_compliance", <<>>), "overall_score", 0) \div (One \div 1000))
        sum == SeqSum(scores)
        squares == SeqSum(MapSeq(scores, LAMBDA x : x * x))
        variance == ((n * squares - sum * sum) \div (n * n)) \div 1000
    IN Max(0, One - 2 * variance * (One \div 1000))

\* _calculate_stability_score: 0.5 below 3 entries, else
\* max(0, 1 - 2 * variance) of the overall scores of the last 5 entries.
\* The variance is formed on the scores in thousandths (it is the only
\* quantity of the model that is rounded, downwards).
CalculateStabilityScore(history) ==
    IF Len(history) < 3 THEN Frac(5, 10)
    ELSE
    LET n == Min(5, Len(history))
        last == SubSeq(history, Len(history) - n + 1, Len(history))
        scores == MapSeq(last, LAMBDA r :
            Get(Get(r, "overall_compliance", <<>>), "overall_score", 0) \div (One \div 1000))
        sum == SeqSum(scores)
        squares == SeqSum(MapSeq(scores, LAMBDA x : x * x))
        variance == ((n * squares - sum * sum) \div (n * n)) \div 1000
    IN Max(0, One - 2 * variance * (One \div 1000))

\* the bundle returned for a black or low-variance frame
BlackScreenBundle ==
    [status |-> "success",
     analysis |->
        [hand_placement |->
            [hands_detected |-> 0, hands_visible |-> FALSE, hand_positions |-> <<>>,
             total_hand_area |-> 0, hands_in_typing_position |-> FALSE,
             confidence |-> 0, analysis_quality |-> "black_screen"],
         keyboard_visibility |->
            [keyboard_visible |-> FALSE, keyboard_detections |-> <<>>,
             keyboard_like_regions |-> <<>>, positioning_score |-> 0,
             confidence |-> 0, analysis_quality |-> "black_screen"],
         face_coverage |->
            [face_coverage |-> [faces_in_secondary_view |-> 0,
                                appropriate_coverage |-> FALSE,
                                coverage_quality |-> "black_screen"],
             face_detection_results |-> <<>>,
             confidence |-> 0, analysis_quality |-> "black_screen"],
         workspace_compliance |->
            [lighting_quality |-> [quality_score |-> 0],
             image_quality |-> [is_sharp |-> FALSE],
             workspace_elements |-> <<>>,
             prohibited_objects |-> <<>>,
             compliance_score |-> 0, analysis_quality |-> "black_screen"],
         overall_compliance |->
            [overall_score |-> 0, status |-> "black_screen",
             component_scores |-> [hands |-> 0, keyboard |-> 0,
                                   face |-> 0, workspace |-> 0]]],
     recommendations |-> <<"black_screen_check_camera">>,
     violation_prevention |->
        [risk_level |-> "very_high", confidence |-> Frac(9, 10),
         score |-> 0, prevention_effectiveness |-> 0],
     stability_score |-> 0]

\* the bundle of the except branch of analyze_secondary_camera_frame
ErrorBundle ==
    [status |-> "error",
     error |-> "Failed to decode image",
     analysis |-> None,
     recommendations |-> <<"unable_to_analyze">>,
     violation_prevention |-> [risk_level |-> "unknown", confidence |-> 0]]

\* AnalyzeSecondaryCameraFrame with the exception of a detector stage
\* reaching the outer handler
AnalyzeSecondaryCameraFrame_StageErrorEscapes(f, history, prev_pos) ==
    IF ~f.decodable
    THEN [result |-> ErrorBundle, history |-> history, prev_pos |-> prev_pos,
          stages |-> {}]
    ELSE IF IsBlackOrInvalidFrame(f)
    THEN [result |-> BlackScreenBundle, history |-> history, prev_pos |-> prev_pos,
          stages |-> {}]
    ELSE IF f.hand_raises \/ f.keyboard_raises \/ f.face_raises \/ f.workspace_raises
    THEN [result |-> ErrorBundle, history |-> history, prev_pos |-> prev_pos,
          stages |-> {"hand_placement", "keyboard_visibility",
                      "face_coverage", "workspace_compliance"}]
    ELSE
    LET hand_analysis == AnalyzeHandPlacement(f)
        keyboard_analysis == AnalyzeKeyboardVisibility(f)
        face_analysis == AnalyzeFaceCoverage(f, prev_pos)
        workspace_analysis == AnalyzeWorkspaceCompliance(f)
        analysis_result ==
            [hand_placement |-> hand_analysis,
             keyboard_visibility |-> keyboard_analysis,
             face_coverage |-> face_analysis,
             workspace_compliance |-> workspace_analysis,
             overall_compliance |-> CalculateOverallCompliance(
                hand_analysis, keyboard_analysis, face_analysis, workspace_analysis)]
        updated == UpdateAnalysisHistory(history, analysis_result)
    IN [result |->
            [status |-> "success",
             analysis |-> analysis_result,
             recommendations |-> GenerateRecommendations(analysis_result),
             violation_prevention |-> AssessViolationRisk(analysis_result),
             stability_score |-> CalculateStabilityScore(updated)],
        history |-> updated,
        prev_pos |-> FaceDetectorAnalyzeFrame(f, prev_pos).prev_pos,
        stages |-> {"hand_placement", "keyboard_visibility",
                    "face_coverage", "workspace_compliance"}]

\* AnalyzeSecondaryCameraFrame entering the black-screen analysis in the
\* history
AnalyzeSecondaryCameraFrame_BlackIntoHistory(f, history, prev_pos) ==
    IF ~f.decodable
    THEN [result |-> ErrorBundle, history |-> history, prev_pos |-> prev_pos,
          stages |-> {}]
    ELSE IF IsBlackOrInvalidFrame(f)
    THEN [result |-> BlackScreenBundle,
          history |-> UpdateAnalysisHistory(history, BlackScreenBundle.analysis),
          prev_pos |-> prev_pos, stages |-> {}]
    ELSE
    LET hand_analysis == AnalyzeHandPlacement(f)
        keyboard_analysis == AnalyzeKeyboardVisibility(f)
        face_analysis == AnalyzeFaceCoverage(f, prev_pos)
        workspace_analysis == AnalyzeWorkspaceCompliance(f)
        analysis_result ==
            [hand_placement |-> hand_analysis,
             keyboard_visibility |-> keyboard_analysis,
             face_coverage |-> face_analysis,
             workspace_compliance |-> workspace_analysis,
             overall_compliance |-> CalculateOverallCompliance(
                hand_analysis, keyboard_analysis, face_analysis, workspace_analysis)]
        updated == UpdateAnalysisHistory(history, analysis_result)
    IN [result |->
            [status |-> "success",
             analysis |-> analysis_result,
             recommendations |-> GenerateRecommendations(analysis_result),
             violation_prevention |-> AssessViolationRisk(analysis_result),
             stability_score |-> CalculateStabilityScore(updated)],
        history |-> updated,
        prev_pos |-> IF f.face_raises THEN prev_pos
                     ELSE FaceDetectorAnalyzeFrame(f, prev_pos).prev_pos,
        stages |-> {"hand_placement", "keyboard_visibility",
                    "face_coverage", "workspace_compliance"}]

\* analyze_secondary_camera_frame on an analyzer whose analysis_history is
\* history and whose face detector's prev_pos is prev_pos: the bundle
\* returned, the history and prev_pos afterwards and the detector stages
\* that ran
AnalyzeSecondaryCameraFrame(f, history, prev_pos) ==
    IF ~f.decodable
    THEN [result |-> ErrorBundle, history |-> history, prev_pos |-> prev_pos,
          stages |-> {}]
    ELSE IF IsBlackOrInvalidFrame(f)
    THEN [result |-> BlackScreenBundle, history |-> history, prev_pos |-> prev_pos,
          stages |-> {}]
    ELSE
    LET hand_analysis == AnalyzeHandPlacement(f)
        keyboard_analysis == AnalyzeKeyboardVisibility(f)
        face_analysis == AnalyzeFaceCoverage(f, prev_pos)
        workspace_analysis == AnalyzeWorkspaceCompliance(f)
        analysis_result ==
            [hand_placement |-> hand_analysis,
             keyboard_visibility |-> keyboard_analysis,
             face_coverage |-> face_analysis,
             workspace_compliance |-> workspace_analysis,
             overall_compliance |-> CalculateOverallCompliance(
                hand_analysis, keyboard_analysis, face_analysis, workspace_analysis)]
        updated == UpdateAnalysisHistory(history, analysis_result)
    IN [result |->
            [status |-> "success",
             analysis |-> analysis_result,
             recommendations |-> GenerateRecommendations(analysis_result),
             violation_prevention |-> AssessViolationRisk(analysis_result),
             stability_score |-> CalculateStabilityScore(updated)],
        history |-> updated,
        prev_pos |-> IF f.face_raises THEN prev_pos
                     ELSE FaceDetectorAnalyzeFrame(f, prev_pos).prev_pos,
        stages |-> {"hand_placement", "keyboard_visibility",
                    "face_coverage", "workspace_compliance"}]

(***************************************************************************)
(* MultiCameraManager                                                      *)
(***************************************************************************)

\* Python truthiness of the cache: None and {} are false
Falsy(x) == x = None \/ x = <<>>

\* ShouldSuppressViolations with a strict confidence comparison
ShouldSuppressViolations_Strict(cache) ==
    IF Falsy(cache) THEN FALSE
    ELSE
    LET violation_prevention == Get(cache, "violation_prevention", <<>>)
        risk_level == Get(violation_prevention, "risk_level", "very_high")
        confidence == Get(violation_prevention, "confidence", 0)
    IN risk_level \in {"low", "medium"} /\ confidence > Frac(7, 10)

\* should_suppress_violations
ShouldSuppressViolations(cache) ==
    IF Falsy(cache) THEN FALSE
    ELSE
    LET violation_prevention == Get(cache, "violation_prevention", <<>>)
        risk_level == Get(violation_prevention, "risk_level", "very_high")
        confidence == Get(violation_prevention, "confidence", 0)
    IN risk_level \in {"low", "medium"} /\ confidence >= Frac(7, 10)

\* get_secondary_camera_violations
GetSecondaryCameraViolations(cache) ==
    IF Falsy(cache) THEN <<>> ELSE GenerateSecondaryCameraViolations(cache)

\* GetViolationPreventionStatus active for low risk only
GetViolationPreventionStatus_LowOnly(cache) ==
    IF Falsy(cache)
    THEN [status |-> "inactive", reason |-> "no_analysis", effectiveness |-> 0]
    ELSE
    LET violation_prevention == Get(cache, "violation_prevention", <<>>)
    IN [status |-> IF Get(violation_prevention, "risk_level", "") = "low"
                   THEN "active" ELSE "inactive",
        risk_level |-> Get(violation_prevention, "risk_level", "unknown"),
        effectiveness |-> Get(violation_prevention, "prevention_effectiveness", 0),
        confidence |-> Get(violation_prevention, "confidence", 0)]

\* get_violation_prevention_status
GetViolationPreventionStatus(cache) ==
    IF Falsy(cache)
    THEN [status |-> "inactive", reason |-> "no_analysis", effectiveness |-> 0]
    ELSE
    LET violation_prevention == Get(cache, "violation_prevention", <<>>)
    IN [status |-> IF Get(violation_prevention, "risk_level", "") \in {"low", "medium"}
                   THEN "active" ELSE "inactive",
        risk_level |-> Get(violation_prevention, "risk_level", "unknown"),
        effectiveness |-> Get(violation_prevention, "prevention_effectiveness", 0),
        confidence |-> Get(violation_prevention, "confidence", 0)]

ValidationError ==
    [status |-> "error", error |-> "exception", position_valid |-> FALSE,
     guidance |-> "check_camera"]

\* validate_secondary_camera: the dict returned, and the analyzer history,
\* cache and secondary_position_valid afterwards.  self._decode_image raises
\* before the analyzer is called when the frame does not decode.
ValidateSecondaryCamera(f, history, cache, position_valid, prev_pos) ==
    LET Validated(a) ==
       IF a.result.status = "error"
       THEN [ret |-> ValidationError, history |-> a.history, cache |-> cache,
             position_valid |-> position_valid, prev_pos |-> a.prev_pos,
             stages |-> a.stages]
       ELSE
       LET ai_analysis == a.result
           analysis == a.result.analysis
           hands_visible == Get(analysis.hand_placement, "hands_visible", FALSE)
           keyboard_visible == Get(analysis.keyboard_visibility, "keyboard_visible", FALSE)
           face_ok == Get(Get(analysis.face_coverage, "face_coverage", <<>>),
                          "appropriate_coverage", TRUE)
           workspace_compliant ==
               Get(analysis.workspace_compliance, "compliance_score", 0) > Frac(5, 10)
           overall_score == Get(analysis.overall_compliance, "overall_score", 0)
           valid == hands_visible /\ keyboard_visible /\ face_ok
                    /\ workspace_compliant /\ overall_score > Frac(6, 10)
       IN [ret |-> [status |-> IF valid THEN "valid" ELSE "invalid",
                    hands_visible |-> hands_visible,
                    keyboard_visible |-> keyboard_visible,
                    face_coverage_appropriate |-> face_ok,
                    workspace_compliant |-> workspace_compliant,
                    position_valid |-> valid,
                    ai_analysis |-> ai_analysis,
                    overall_score |-> overall_score,
                    compliance_status |-> Get(analysis.overall_compliance, "status", "unknown"),
                    recommendations |-> Get(ai_analysis, "recommendations", <<>>),
                    violation_prevention |-> Get(ai_analysis, "violation_prevention", <<>>)],
           history |-> a.history,
           cache |-> ai_analysis,
           position_valid |-> valid,
           prev_pos |-> a.prev_pos,
           stages |-> a.stages]
    IN IF ~f.decodable
       THEN [ret |-> ValidationError, history |-> history, cache |-> cache,
             position_valid |-> position_valid, prev_pos |-> prev_pos,
             stages |-> {}]
       ELSE Validated(AnalyzeSecondaryCameraFrame(f, history, prev_pos))

\* validate_primary_camera, as far as process_dual_camera reads it
ValidatePrimaryCamera(p) ==
    LET valid == Get(p.face, "faces_detected", 0) = 1 /\ Get(p.face, "violations", <<>>) = <<>>
    IN [status |-> IF valid THEN "valid" ELSE "invalid",
        faces_detected |-> Get(p.face, "faces_detected", 0),
        position_valid |-> valid]

\* process_dual_camera with a secondary frame: the dict returned (without
\* dual_camera_score and monitoring_effectiveness) and the state afterwards
ProcessDualCamera(p, f, history, cache, position_valid, prev_pos) ==
    LET Combined(primary_result, v) ==
        LET secondary_result == v.ret
            has_ai == "ai_analysis" \in DOMAIN secondary_result
            violation_prevention ==
                IF has_ai
                THEN Get(secondary_result.ai_analysis, "violation_prevention", <<>>)
                ELSE <<>>
            violation_prevention_active ==
                has_ai /\ Get(violation_prevention, "risk_level", "") \in {"low", "medium"}
            secondary_valid == Get(secondary_result, "position_valid", FALSE)
        IN [ret |-> [primary_camera |-> primary_result,
                     secondary_camera |-> secondary_result,
                     overall_status |->
                        IF primary_result.position_valid /\ secondary_valid
                        THEN "valid" ELSE "invalid",
                     violation_prevention |->
                        [active |-> violation_prevention_active,
                         effectiveness |->
                            IF violation_prevention_active THEN "high" ELSE "low",
                         ai_confidence |-> Get(violation_prevention, "confidence", 0)]],
            history |-> v.history, cache |-> v.cache,
            position_valid |-> v.position_valid, prev_pos |-> v.prev_pos,
            stages |-> v.stages]
    IN Combined(ValidatePrimaryCamera(p),
                ValidateSecondaryCamera(f, history, cache, position_valid, prev_pos))

(***************************************************************************)
(* ProctorSession.process_video_frame                                      *)
(***************************************************************************)

\* the violations the primary detectors report for a primary frame p
PrimaryViolations(p) ==
    LET face == Get(p.face, "violations", <<>>)
        gaze == IF Get(p.gaze, "status", "") = "attention_violation"
                THEN <<[type |-> "gaze_violation", severity |-> "medium",
                        confidence |-> p.gaze.confidence]>>
                ELSE <<>>
        objects == IF Get(p.objects, "status", "") = "violation"
                   THEN MapSeq(p.objects.detections,
                        LAMBDA det : [type |-> "prohibited_object",
                                      severity |-> p.objects.severity,
                                      message |-> det.class,
                                      confidence |-> det.confidence])
                   ELSE <<>>
    IN face \o gaze \o objects

\* TagSuppressed without the test of the source
TagSuppressed_All(violations) ==
    MapSeq(violations, LAMBDA violation :
        [suppressed |-> TRUE,
         suppression_reason |-> "secondary_camera_ai_validation"] @@ violation)

\* the tagging loop: every violation not sourced from the secondary camera
\* gets suppressed = True and a suppression_reason
TagSuppressed(violations) ==
    MapSeq(violations, LAMBDA violation :
        IF Get(violation, "source", "") # "secondary_camera"
        THEN [suppressed |-> TRUE,
              suppression_reason |-> "secondary_camera_ai_validation"] @@ violation
        ELSE violation)

\* the active view: violations not tagged suppressed
ActiveViolations(violations) ==
    SelectSeq(violations, LAMBDA v : ~Get(v, "suppressed", FALSE))

\* ProcessVideoFrame consulting the manager whether or not the secondary
\* camera is active
ProcessVideoFrame_IgnoreActive(p, active, cache) ==
    LET primary == PrimaryViolations(p)
        secondary_camera_violations == GetSecondaryCameraViolations(cache)
        all == primary \o secondary_camera_violations
        violation_suppression_active == ShouldSuppressViolations(cache)
        violations == IF violation_suppression_active THEN TagSuppressed(all) ELSE all
        active_violations == ActiveViolations(violations)
    IN [status |-> IF active_violations # <<>> THEN "violation" ELSE "clear",
        violations |-> violations,
        active_violations |-> active_violations,
        violation_suppression |->
            [active |-> violation_suppression_active,
             suppressed_count |-> Len(violations) - Len(active_violations)]]

\* process_video_frame (the metrics block is left out)
ProcessVideoFrame(p, active, cache) ==
    LET primary == PrimaryViolations(p)
        secondary_camera_violations ==
            IF active THEN GetSecondaryCameraViolations(cache) ELSE <<>>
        all == primary \o secondary_camera_violations
        violation_suppression_active ==
            IF active THEN ShouldSuppressViolations(cache) ELSE FALSE
        violations == IF violation_suppression_active THEN TagSuppressed(all) ELSE all
        active_violations == ActiveViolations(violations)
    IN [status |-> IF active_violations # <<>> THEN "violation" ELSE "clear",
        violations |-> violations,
        active_violations |-> active_violations,
        violation_suppression |->
            [active |-> violation_suppression_active,
             suppressed_count |-> Len(violations) - Len(active_violations)]]

(***************************************************************************)
(* Frames                                                                  *)
(***************************************************************************)

Contour(area, defects, center_y) ==
    [area |-> area, defects |-> defects, center_y |-> center_y]

Edge(area, vertices, aspect_ratio, center_y) ==
    [area |-> area, vertices |-> vertices, aspect_ratio |-> aspect_ratio,
     center_y |-> center_y]

Detection(class, confidence, center_y) ==
    [class |-> class, confidence |-> confidence, center_y |-> center_y]

\* a face as the face classifier reports it: its detection confidence, the
\* direction _calculate_gaze_direction derives from its keypoints and the
\* x-coordinate of the centre of its box
Face(confidence, gaze, center_x) ==
    [confidence |-> confidence, gaze |-> gaze, center_x |-> center_x]

\* the result of the primary face detector
FaceResult(faces_detected, violations) ==
    [faces_detected |-> faces_detected,
     violations |-> MapSeq(violations, LAMBDA t : [type |-> t, severity |-> "high"]),
     confidence |-> Frac(99, 100)]

\* a frame that base64/imdecode rejects
Undecodable == [decodable |-> FALSE]

\* a decodable frame: pixel statistics bv = <<mean brightness, grey variance>>
\* and ws = <<contrast, blur score, horizontal lines>>, and what the skin
\* mask, the classifiers and the edge map yield
Frame(bv, ws, hand, keyboard, face) ==
    [decodable |-> TRUE,
     brightness |-> bv[1], variance |-> bv[2],
     contrast |-> ws[1], blur_score |-> ws[2], horizontal_lines |-> ws[3],
     workspace_raises |-> ws[4],
     hand_raises |-> hand.raises, skin_contours |-> hand.contours,
     keyboard_raises |-> keyboard.raises, object_raises |-> keyboard.object_raises,
     objects |-> keyboard.objects, edge_contours |-> keyboard.contours,
     face_raises |-> face.raises, faces |-> face.faces,
     face_classifier_raises |-> Get(face, "classifier_raises", FALSE)]

HandInput(raises, contours) == [raises |-> raises, contours |-> contours]

KeyboardInput(raises, object_raises, objects, contours) ==
    [raises |-> raises, object_raises |-> object_raises,
     objects |-> objects, contours |-> contours]

FaceInput(raises, faces) == [raises |-> raises, faces |-> faces]

SkinSamples ==
    {<<>>,
     <<Contour(1, 3, 60)>>,
     <<Contour(30, 0, 60)>>,
     <<Contour(30, 2, 40)>>,
     <<Contour(30, 2, 41)>>,
     <<Contour(100, 0, 30), Contour(30, 1, 70)>>,
     <<Contour(800, 4, 60)>>}

HandInputs ==
    {HandInput(FALSE, c) : c \in SkinSamples} \cup {HandInput(TRUE, <<>>)}

ObjectSamples ==
    {<<>>,
     <<Detection("laptop", Frac(3, 10), 60)>>,
     <<Detection("keyboard", One, 20)>>,
     <<Detection("cell phone", Frac(9, 10), 50)>>}

EdgeSamples ==
    {<<>>,
     <<Edge(50, 4, 20, 60)>>,
     <<Edge(300, 6, 79, 30)>>,
     <<Edge(50, 3, 20, 60)>>,
     <<Edge(50, 4, 12, 60)>>}

KeyboardInputs ==
    {KeyboardInput(FALSE, FALSE, o, e) : o \in ObjectSamples, e \in EdgeSamples}
    \cup {KeyboardInput(FALSE, TRUE, <<>>, e) : e \in EdgeSamples}
    \cup {KeyboardInput(TRUE, FALSE, <<>>, <<>>)}

\* detect_faces raising inside FaceDetector.analyze_frame
FaceClassifierError == [raises |-> FALSE, faces |-> <<>>, classifier_raises |-> TRUE]

FaceInputs ==
    {FaceInput(FALSE, <<>>),
     FaceInput(FALSE, <<Face(Frac(99, 100), "center", 320)>>),
     FaceInput(FALSE, <<Face(Frac(99, 100), "left", 320)>>),
     FaceInput(FALSE, <<Face(Frac(5, 10), "center", 320)>>),
     FaceInput(FALSE, <<Face(Frac(99, 100), "center", 200),
                        Face(Frac(99, 100), "center", 440)>>),
     FaceInput(TRUE, <<>>),
     FaceClassifierError}

WorkspaceInputs ==
    {<<5, 0, 0, FALSE>>, <<25, 50, 3, FALSE>>, <<60, 150, 12, FALSE>>,
     <<25, 50, 3, TRUE>>}

\* <<brightness, variance>> of black and of low-variance frames
DegenerateStatistics ==
    {<<0, 0>>, <<5, 0>>, <<5, 400>>, <<9, 9>>, <<9, 10>>, <<9, 400>>,
     <<10, 0>>, <<10, 9>>, <<130, 0>>, <<130, 9>>, <<200, 5>>}

\* <<brightness, variance>> of frames with signal
NormalStatistics == {<<10, 10>>, <<130, 400>>}

QuietHand == HandInput(FALSE, <<>>)
QuietKeyboard == KeyboardInput(FALSE, FALSE, <<>>, <<>>)
QuietFace == FaceInput(FALSE, <<>>)

DegenerateFrames ==
    {Frame(bv, <<5, 0, 0, FALSE>>, QuietHand, QuietKeyboard, QuietFace) :
        bv \in DegenerateStatistics}

NormalFrames ==
    {Frame(bv, ws, h, k, fc) :
        bv \in NormalStatistics, ws \in WorkspaceInputs, h \in HandInputs,
        k \in KeyboardInputs, fc \in FaceInputs}

\* the frames the analyzer is exercised on
AnalyzerFrames == {Undecodable} \cup DegenerateFrames \cup NormalFrames

\* frames of a session: dead camera, and one frame per risk tier
FrameBlack == Frame(<<0, 0>>, <<5, 0, 0, FALSE>>, QuietHand, QuietKeyboard, QuietFace)
FrameLowVariance == Frame(<<130, 5>>, <<5, 0, 0, FALSE>>, QuietHand, QuietKeyboard, QuietFace)
FrameGood ==
    Frame(<<130, 400>>, <<60, 150, 12, FALSE>>,
          HandInput(FALSE, <<Contour(100, 0, 60), Contour(30, 1, 70)>>),
          KeyboardInput(FALSE, FALSE, <<Detection("laptop", Frac(9, 10), 60)>>, <<>>),
          QuietFace)
FrameMedium ==
    Frame(<<130, 400>>, <<25, 50, 3, FALSE>>, QuietHand, QuietKeyboard, QuietFace)
FrameHigh ==
    Frame(<<130, 400>>, <<5, 0, 0, FALSE>>, QuietHand, QuietKeyboard,
          FaceInput(FALSE, <<Face(Frac(99, 100), "center", 320)>>))
FrameVeryHigh ==
    Frame(<<130, 400>>, <<25, 50, 3, TRUE>>, HandInput(TRUE, <<>>),
          KeyboardInput(TRUE, FALSE, <<>>, <<>>),
          FaceInput(FALSE, <<Face(Frac(99, 100), "center", 320)>>))

SessionFrames ==
    {Undecodable, FrameBlack, FrameLowVariance, FrameGood, FrameMedium,
     FrameHigh, FrameVeryHigh}

\* primary frames: what the face detector, the gaze tracker and the object
\* detector report for them
PrimaryClear ==
    [face |-> FaceResult(1, <<>>),
     gaze |-> [status |-> "normal", confidence |-> One],
     objects |-> [status |-> "clear", severity |-> "none", detections |-> <<>>]]
PrimaryViolating ==
    [face |-> FaceResult(1, <<"gaze_violation">>),
     gaze |-> [status |-> "attention_violation", confidence |-> Frac(5, 10)],
     objects |-> [status |-> "violation", severity |-> "critical",
                  detections |-> <<Detection("cell phone", Frac(9, 10), 50)>>]]

PrimaryFrames == {PrimaryClear, PrimaryViolating}

(***************************************************************************)
(* State                                                                   *)
(***************************************************************************)

VARIABLES
    analysis_history,         \* SecondaryCameraAnalyzer.analysis_history
    face_prev_pos,            \* prev_pos of the analyzer's FaceDetector
    secondary_analysis_cache, \* MultiCameraManager.secondary_analysis_cache
    secondary_position_valid, \* MultiCameraManager.secondary_position_valid
    secondary_camera_active,  \* ProctorSession.secondary_camera_active
    frame,                    \* the secondary frame received last
    primary_frame,            \* the primary frame received last
    primary_analysis,         \* what process_video_frame returned last
    response,                 \* what the last operation returned
    stages_run,               \* detector stages run by the last operation
    arg,                      \* argument of a function called on its own; in
                              \* a run of analyses, the analyzer's state on entry
    op,                       \* the last operation
    steps                     \* operations so far

vars == <<analysis_history, face_prev_pos, secondary_analysis_cache, secondary_position_valid,
          secondary_camera_active, frame, primary_frame, primary_analysis,
          response, stages_run, arg, op, steps>>

\* operations of one session explored
MaxOps == 3

\* ProctorSession.__init__ with its MultiCameraManager and analyzer
Fresh ==
    /\ analysis_history = <<>>
    /\ face_prev_pos = None
    /\ secondary_analysis_cache = None
    /\ secondary_position_valid = FALSE
    /\ secondary_camera_active = FALSE
    /\ primary_frame = None
    /\ primary_analysis = None
    /\ response = None
    /\ stages_run = {}
    /\ steps = 0

Init ==
    /\ Fresh
    /\ frame = None
    /\ arg = None
    /\ op = "init"

(***************************************************************************)
(* ConnectionManager.process_frame and the direct HTTP endpoint            *)
(***************************************************************************)

\* frame_type 'camera_validation' with secondary data: validate the frame
\* as secondary camera, activate on a valid position
CameraValidation(f) ==
    \E v \in {ValidateSecondaryCamera(f, analysis_history, secondary_analysis_cache,
                                      secondary_position_valid, face_prev_pos)} :
       /\ steps < MaxOps
       /\ analysis_history' = v.history
       /\ face_prev_pos' = v.prev_pos
       /\ secondary_analysis_cache' = v.cache
       /\ secondary_position_valid' = v.position_valid
       /\ secondary_camera_active' =
            IF Get(v.ret, "position_valid", FALSE) THEN TRUE ELSE secondary_camera_active
       /\ frame' = f
       /\ response' = v.ret
       /\ stages_run' = v.stages
       /\ op' = "camera_validation"
       /\ steps' = steps + 1
       /\ UNCHANGED <<primary_frame, primary_analysis, arg>>

\* frame_type 'video' with secondary_data: auto-activate, process_dual_camera,
\* then process_video_frame on the primary frame, then merge
VideoDual(p, f) ==
    \E d \in {ProcessDualCamera(p, f, analysis_history, secondary_analysis_cache,
                                secondary_position_valid, face_prev_pos)} :
    \E analysis \in {ProcessVideoFrame(p, TRUE, d.cache)} :
    \E secondary_violations \in {GetSecondaryCameraViolations(d.cache)} :
    LET combined_violations == analysis.violations \o secondary_violations
        active_violations == ActiveViolations(combined_violations)
    IN /\ steps < MaxOps
       /\ analysis_history' = d.history
       /\ face_prev_pos' = d.prev_pos
       /\ secondary_analysis_cache' = d.cache
       /\ secondary_position_valid' = d.position_valid
       /\ secondary_camera_active' = TRUE
       /\ frame' = f
       /\ primary_frame' = p
       /\ primary_analysis' = analysis
       /\ response' =
            [dual_camera_analysis |-> d.ret,
             secondary_camera_ai |-> Get(d.ret.secondary_camera, "ai_analysis", <<>>),
             secondary_camera_violations |-> secondary_violations,
             violations |-> combined_violations,
             active_violations |-> active_violations,
             status |-> IF active_violations # <<>> THEN "violation" ELSE "clear"]
            @@ analysis
       /\ stages_run' = d.stages
       /\ op' = "video_dual"
       /\ steps' = steps + 1
       /\ UNCHANGED arg

\* frame_type 'video' without secondary_data: process_video_frame only
VideoSingle(p) ==
    \E analysis \in {ProcessVideoFrame(p, secondary_camera_active,
                                       secondary_analysis_cache)} :
       /\ steps < MaxOps
       /\ primary_frame' = p
       /\ primary_analysis' = analysis
       /\ response' = analysis
       /\ stages_run' = {}
       /\ op' = "video_single"
       /\ steps' = steps + 1
       /\ UNCHANGED <<analysis_history, face_prev_pos, secondary_analysis_cache,
                      secondary_position_valid, secondary_camera_active, frame, arg>>

\* frame_type 'secondary_camera_frame': auto-activate and run the analyzer;
\* the cache is not written
SecondaryCameraFrame(f) ==
    \E a \in {AnalyzeSecondaryCameraFrame(f, analysis_history, face_prev_pos)} :
       /\ steps < MaxOps
       /\ analysis_history' = a.history
       /\ face_prev_pos' = a.prev_pos
       /\ secondary_camera_active' = TRUE
       /\ frame' = f
       /\ response' =
            [status |-> "success",
             analysis |-> a.result,
             violation_prevention_status |->
                GetViolationPreventionStatus(secondary_analysis_cache)]
       /\ stages_run' = a.stages
       /\ op' = "secondary_camera_frame"
       /\ steps' = steps + 1
       /\ UNCHANGED <<secondary_analysis_cache, secondary_position_valid,
                      primary_frame, primary_analysis, arg>>

\* POST /api/secondary-camera-analysis/{session_id}: auto-activate, run the
\* analyzer and write its bundle to the cache
SecondaryAnalysisDirect(f) ==
    \E a \in {AnalyzeSecondaryCameraFrame(f, analysis_history, face_prev_pos)} :
       /\ steps < MaxOps
       /\ analysis_history' = a.history
       /\ face_prev_pos' = a.prev_pos
       /\ secondary_analysis_cache' = a.result
       /\ secondary_camera_active' = TRUE
       /\ frame' = f
       /\ response' =
            [status |-> "success",
             analysis |-> a.result,
             violation_prevention_status |-> GetViolationPreventionStatus(a.result)]
       /\ stages_run' = a.stages
       /\ op' = "secondary_analysis_direct"
       /\ steps' = steps + 1
       /\ UNCHANGED <<secondary_position_valid, primary_frame, primary_analysis, arg>>

Next ==
    \/ \E f \in SessionFrames : CameraValidation(f)
    \/ \E p \in PrimaryFrames, f \in SessionFrames : VideoDual(p, f)
    \/ \E p \in PrimaryFrames : VideoSingle(p)
    \/ \E f \in SessionFrames : SecondaryCameraFrame(f)
    \/ \E f \in SessionFrames : SecondaryAnalysisDirect(f)

Spec == Init /\ [][Next]_vars

(***************************************************************************)
(* The analyzer on one frame                                               *)
(***************************************************************************)

InitAnalyzer ==
    /\ Fresh
    /\ frame \in AnalyzerFrames
    /\ arg = None
    /\ op = "received"

\* analyze_secondary_camera_frame(frame) on a fresh analyzer
AnalyzeCall ==
    LET a == AnalyzeSecondaryCameraFrame(frame, analysis_history, face_prev_pos)
    IN /\ op = "received"
       /\ analysis_history' = a.history
       /\ face_prev_pos' = a.prev_pos
       /\ response' = a.result
       /\ stages_run' = a.stages
       /\ op' = "analyzed"
       /\ steps' = steps + 1
       /\ UNCHANGED <<secondary_analysis_cache, secondary_position_valid,
                      secondary_camera_active, frame, primary_frame,
                      primary_analysis, arg>>

NextAnalyzer == AnalyzeCall

AnalyzerSpec == InitAnalyzer /\ [][NextAnalyzer]_vars

(***************************************************************************)
(* One analyzer on a sequence of frames                                    *)
(***************************************************************************)

\* FrameHigh with the face 120 pixels to the left
FrameMoved ==
    Frame(<<130, 400>>, <<5, 0, 0, FALSE>>, QuietHand, QuietKeyboard,
          FaceInput(FALSE, <<Face(Frac(99, 100), "center", 200)>>))

SequenceFrames == {Undecodable, FrameBlack, FrameHigh, FrameMoved}

\* analyses of one analyzer explored
MaxAnalyses == 12

InitSequence ==
    /\ Fresh
    /\ frame = None
    /\ arg = None
    /\ op = "init"

\* analyze_secondary_camera_frame(f) on the analyzer as the calls before
\* left it
AnalyzeNext(f) ==
    \E a \in {AnalyzeSecondaryCameraFrame(f, analysis_history, face_prev_pos)} :
       /\ steps < MaxAnalyses
       /\ analysis_history' = a.history
       /\ face_prev_pos' = a.prev_pos
       /\ frame' = f
       /\ response' = a.result
       /\ stages_run' = a.stages
       /\ arg' = [analysis_history |-> analysis_history, prev_pos |-> face_prev_pos]
       /\ op' = "analyzed"
       /\ steps' = steps + 1
       /\ UNCHANGED <<secondary_analysis_cache, secondary_position_valid,
                      secondary_camera_active, primary_frame, primary_analysis>>

NextSequence == \E f \in SequenceFrames : AnalyzeNext(f)

SequenceSpec == InitSequence /\ [][NextSequence]_vars

(***************************************************************************)
(* The handlers of one session on the event loop                           *)
(***************************************************************************)

\* the coroutines serving one session: websocket_endpoint on frames of type
\* 'secondary_camera_frame' and two requests to the direct endpoint
Handlers == {"ws", "http1", "http2"}

\* a handler awaiting inside the history update as well
Awaits_InAnalysis(pc) == pc \in {"receive", "send", "append"}

\* the positions at which a handler coroutine awaits and so gives up the
\* event loop: receive_json (the request being read) and send_json (the
\* response being written); process_frame, the direct endpoint's body and
\* the analyzer await nothing
Awaits(pc) == pc \in {"receive", "send"}

\* positions inside analyze_secondary_camera_frame and the cache write
InAnalysis(pc) == pc \in {"detect", "append", "bundle", "cache"}

\* the locals of a handler between two frames
Idle == [frame |-> None, seq |-> 0, entry |-> None, detected |-> None,
         result |-> None, exit |-> None]

\* arg is the event loop: pc the position of each handler, running the
\* handler that holds the loop, locals each handler's local variables (seq
\* the arrival number of its frame, entry and exit the analyzer's state when
\* its analysis began and ended), order the arrival numbers of the entries
\* of analysis_history
InitLoop ==
    /\ Fresh
    /\ frame = None
    /\ arg = [pc |-> [h \in Handlers |-> "receive"],
              running |-> "none",
              locals |-> [h \in Handlers |-> Idle],
              order |-> <<>>]
    /\ op = "init"

\* the event loop runs h: it holds the loop, or no handler does
Runnable(h) == arg.running \in {"none", h}

\* the event loop after h moved to pc with the locals given
Resume(h, pc, locals) ==
    [arg EXCEPT !.pc[h] = pc,
                !.running = IF Awaits(pc) THEN "none" ELSE h,
                !.locals[h] = locals]

\* receive_json returns frame f to the WebSocket handler, or the direct
\* endpoint is called with it; the secondary camera is auto-activated
Receive(h, f) ==
    /\ steps < MaxOps
    /\ Runnable(h)
    /\ arg.pc[h] = "receive"
    /\ arg' = Resume(h, "detect",
                     [Idle EXCEPT !.frame = f, !.seq = steps + 1,
                                  !.entry = [analysis_history |-> analysis_history,
                                             prev_pos |-> face_prev_pos]])
    /\ secondary_camera_active' = TRUE
    /\ frame' = f
    /\ op' = "received"
    /\ steps' = steps + 1
    /\ UNCHANGED <<analysis_history, face_prev_pos, secondary_analysis_cache,
                   secondary_position_valid, primary_frame, primary_analysis,
                   response, stages_run>>

\* analyze_secondary_camera_frame up to analysis_result: the black-frame
\* check and the four detectors, the face detector moving its prev_pos
Detect(h) ==
    /\ Runnable(h)
    /\ arg.pc[h] = "detect"
    /\ \E a \in {AnalyzeSecondaryCameraFrame(arg.locals[h].frame, <<>>, face_prev_pos)} :
       /\ face_prev_pos' = a.prev_pos
       /\ arg' = Resume(h, "append", [arg.locals[h] EXCEPT !.detected = a])
       /\ stages_run' = a.stages
       /\ op' = "detected"
       /\ UNCHANGED <<analysis_history, secondary_analysis_cache,
                      secondary_position_valid, secondary_camera_active, frame,
                      primary_frame, primary_analysis, response, steps>>

\* _update_analysis_history(analysis_result), skipped by the early returns
UpdateHistory(h) ==
    LET detected == arg.locals[h].detected
        appends == detected.history # <<>>
    IN /\ Runnable(h)
       /\ arg.pc[h] = "append"
       /\ analysis_history' =
            IF appends THEN UpdateAnalysisHistory(analysis_history, detected.history[1])
            ELSE analysis_history
       /\ arg' = [Resume(h, "bundle", arg.locals[h]) EXCEPT
                    !.order = IF appends
                              THEN UpdateAnalysisHistory(arg.order, arg.locals[h].seq)
                              ELSE arg.order]
       /\ op' = "appended"
       /\ UNCHANGED <<face_prev_pos, secondary_analysis_cache,
                      secondary_position_valid, secondary_camera_active, frame,
                      primary_frame, primary_analysis, response, stages_run, steps>>

\* the bundle returned, its stability_score read from the history as it is
\* now; the WebSocket handler goes on to send_json, the direct endpoint to
\* the cache write
Bundle(h) ==
    LET detected == arg.locals[h].detected
        result == IF detected.history # <<>>
                  THEN [detected.result EXCEPT
                          !.stability_score = CalculateStabilityScore(analysis_history)]
                  ELSE detected.result
        exit == [analysis_history |-> analysis_history, prev_pos |-> face_prev_pos]
    IN /\ Runnable(h)
       /\ arg.pc[h] = "bundle"
       /\ arg' = Resume(h, IF h = "ws" THEN "send" ELSE "cache",
                        [arg.locals[h] EXCEPT !.result = result, !.exit = exit])
       /\ op' = "bundled"
       /\ UNCHANGED <<analysis_history, face_prev_pos, secondary_analysis_cache,
                      secondary_position_valid, secondary_camera_active, frame,
                      primary_frame, primary_analysis, response, stages_run, steps>>

\* the direct endpoint writes the bundle to secondary_analysis_cache
Cache(h) ==
    /\ Runnable(h)
    /\ arg.pc[h] = "cache"
    /\ secondary_analysis_cache' = arg.locals[h].result
    /\ arg' = Resume(h, "send", arg.locals[h])
    /\ op' = "cached"
    /\ UNCHANGED <<analysis_history, face_prev_pos, secondary_position_valid,
                   secondary_camera_active, frame, primary_frame, primary_analysis,
                   response, stages_run, steps>>

\* send_json, or the endpoint's response, is written; the handler waits for
\* its next frame
Send(h) ==
    /\ Runnable(h)
    /\ arg.pc[h] = "send"
    /\ response' = [status |-> "success", analysis |-> arg.locals[h].result]
    /\ arg' = Resume(h, "receive", Idle)
    /\ op' = "sent"
    /\ UNCHANGED <<analysis_history, face_prev_pos, secondary_analysis_cache,
                   secondary_position_valid, secondary_camera_active, frame,
                   primary_frame, primary_analysis, stages_run, steps>>

NextLoop ==
    \/ \E h \in Handlers, f \in SequenceFrames : Receive(h, f)
    \/ \E h \in Handlers : Detect(h)
    \/ \E h \in Handlers : UpdateHistory(h)
    \/ \E h \in Handlers : Bundle(h)
    \/ \E h \in Handlers : Cache(h)
    \/ \E h \in Handlers : Send(h)

LoopSpec == InitLoop /\ [][NextLoop]_vars

(***************************************************************************)
(* The violation generator on any bundle                                   *)
(***************************************************************************)

\* hand_placement dicts: visible or not, typing or not, and the empty dict
GridHands ==
    {[hands_visible |-> v, hands_in_typing_position |-> t] : v, t \in BOOLEAN}
    \cup {<<>>}

GridKeyboards == {[keyboard_visible |-> v] : v \in BOOLEAN} \cup {<<>>}

GridFaces ==
    {[face_coverage |-> [coverage_quality |-> q]] :
        q \in {"none", "appropriate", "too_detailed", "unknown", "black_screen"}}
    \cup {<<>>}

GridWorkspaces ==
    {[compliance_score |-> c] : c \in {0, Frac(4, 10) - 1, Frac(4, 10), One}}
    \cup {<<>>}

GridBundles ==
    {[status |-> st,
      analysis |-> [hand_placement |-> h, keyboard_visibility |-> k,
                    face_coverage |-> fc, workspace_compliance |-> w]] :
        st \in {"success", "error"}, h \in GridHands, k \in GridKeyboards,
        fc \in GridFaces, w \in GridWorkspaces}
    \cup {[status |-> "success"], ErrorBundle, BlackScreenBundle}

InitViolations ==
    /\ Fresh
    /\ frame = None
    /\ arg \in GridBundles
    /\ op = "init"

\* generate_secondary_camera_violations(arg)
GenerateCall ==
    /\ op = "init"
    /\ response' = GenerateSecondaryCameraViolations(arg)
    /\ op' = "generate_secondary_camera_violations"
    /\ steps' = steps + 1
    /\ UNCHANGED <<analysis_history, face_prev_pos, secondary_analysis_cache,
                   secondary_position_valid, secondary_camera_active, frame,
                   primary_frame, primary_analysis, stages_run, arg>>

NextViolations == GenerateCall

ViolationsSpec == InitViolations /\ [][NextViolations]_vars

(***************************************************************************)
(* The gate and the prevention status on the bundle of any frame           *)
(***************************************************************************)

InitCached ==
    /\ Fresh
    /\ frame \in AnalyzerFrames
    /\ arg = None
    /\ op = "received"

\* the direct endpoint on frame: the analyzer's bundle is cached
AnalyzeAndCache ==
    /\ op = "received"
    /\ SecondaryAnalysisDirect(frame)

\* a dual-camera video tick whose secondary frame is frame, the primary
\* frame being clear
DualTick ==
    /\ op = "received"
    /\ VideoDual(PrimaryClear, frame)

\* should_suppress_violations() and get_violation_prevention_status() on
\* the cache as the analysis left it; arg keeps what the analysis returned
QueryGate ==
    /\ op \in {"secondary_analysis_direct", "video_dual"}
    /\ arg' = response
    /\ response' = [should_suppress |-> ShouldSuppressViolations(secondary_analysis_cache),
                    violation_prevention |->
                        GetViolationPreventionStatus(secondary_analysis_cache)]
    /\ op' = "gate_queried"
    /\ steps' = steps + 1
    /\ UNCHANGED <<analysis_history, face_prev_pos, secondary_analysis_cache,
                   secondary_position_valid, secondary_camera_active, frame,
                   primary_frame, primary_analysis, stages_run>>

NextCached == AnalyzeAndCache \/ DualTick \/ QueryGate

CachedSpec == InitCached /\ [][NextCached]_vars

(***************************************************************************)
(* The suppression gate on any cached value                                *)
(***************************************************************************)

RiskLevels == {"low", "medium", "high", "very_high", "unknown"}

ConfidenceGrid ==
    {0, Frac(5, 10), Frac(7, 10) - 1, Frac(7, 10), Frac(7, 10) + 1,
     Frac(8, 10), Frac(9, 10), One}

GridRiskAssessments ==
    {[risk_level |-> r, confidence |-> c] : r \in RiskLevels, c \in ConfidenceGrid}
    \cup {[risk_level |-> r] : r \in RiskLevels}
    \cup {[confidence |-> c] : c \in ConfidenceGrid}
    \cup {<<>>}

GridCaches ==
    {None, <<>>, [status |-> "success"]}
    \cup {[status |-> "success", violation_prevention |-> vp] : vp \in GridRiskAssessments}

InitGate ==
    /\ analysis_history = <<>>
    /\ face_prev_pos = None
    /\ secondary_analysis_cache \in GridCaches
    /\ secondary_position_valid = FALSE
    /\ secondary_camera_active = FALSE
    /\ frame = None
    /\ primary_frame = None
    /\ primary_analysis = None
    /\ response = None
    /\ stages_run = {}
    /\ arg = None
    /\ op = "init"
    /\ steps = 0

\* POST /api/camera/should-suppress-violations
CheckShouldSuppressViolations ==
    /\ op = "init"
    /\ response' = [status |-> "success",
                    should_suppress |-> ShouldSuppressViolations(secondary_analysis_cache)]
    /\ op' = "should_suppress_violations"
    /\ steps' = steps + 1
    /\ UNCHANGED <<analysis_history, face_prev_pos, secondary_analysis_cache,
                   secondary_position_valid,
                   secondary_camera_active, frame, primary_frame, primary_analysis,
                   stages_run, arg>>

NextGate == CheckShouldSuppressViolations

GateSpec == InitGate /\ [][NextGate]_vars

(***************************************************************************)
(* The camera API: api/camera_api.py serves every request from the one     *)
(* module-level camera_manager.  In this specification the manager and     *)
(* analyzer variables are the state of that manager; arg is the request.   *)
(***************************************************************************)

\* the sessions whose clients call the API; the client of session A uploads
\* frames, the client of session B only asks
SessionIds == {"A", "B"}
Uploaders == {"A"}

InitApi ==
    /\ Fresh
    /\ frame = None
    /\ arg = None
    /\ op = "init"

\* POST /api/camera/validate with camera_type 'secondary'
ApiValidateCamera(s, f) ==
    \E v \in {ValidateSecondaryCamera(f, analysis_history, secondary_analysis_cache,
                                      secondary_position_valid, face_prev_pos)} :
       /\ steps < MaxOps
       /\ analysis_history' = v.history
       /\ face_prev_pos' = v.prev_pos
       /\ secondary_analysis_cache' = v.cache
       /\ secondary_position_valid' = v.position_valid
       /\ frame' = f
       /\ arg' = [session_id |-> s, camera_type |-> "secondary"]
       /\ response' = [status |-> "success", camera_type |-> "secondary",
                       session_id |-> s, result |-> v.ret]
       /\ stages_run' = v.stages
       /\ op' = "api_validate"
       /\ steps' = steps + 1
       /\ UNCHANGED <<secondary_camera_active, primary_frame, primary_analysis>>

\* POST /api/camera/should-suppress-violations, sent by the client of s
ApiShouldSuppressViolations(s) ==
    /\ steps < MaxOps
    /\ arg' = [session_id |-> s]
    /\ response' = [status |-> "success",
                    should_suppress |-> ShouldSuppressViolations(secondary_analysis_cache)]
    /\ op' = "api_should_suppress_violations"
    /\ steps' = steps + 1
    /\ UNCHANGED <<analysis_history, face_prev_pos, secondary_analysis_cache,
                   secondary_position_valid, secondary_camera_active, frame,
                   primary_frame, primary_analysis, stages_run>>

\* GET /api/camera/secondary-camera-violations, sent by the client of s
ApiSecondaryCameraViolations(s) ==
    \E violations \in {GetSecondaryCameraViolations(secondary_analysis_cache)} :
       /\ steps < MaxOps
       /\ arg' = [session_id |-> s]
       /\ response' = [status |-> "success", violations |-> violations,
                       count |-> Len(violations)]
       /\ op' = "api_secondary_camera_violations"
       /\ steps' = steps + 1
       /\ UNCHANGED <<analysis_history, face_prev_pos, secondary_analysis_cache,
                      secondary_position_valid, secondary_camera_active, frame,
                      primary_frame, primary_analysis, stages_run>>

\* GET /api/camera/violation-prevention-status, sent by the client of s
ApiViolationPreventionStatus(s) ==
    /\ steps < MaxOps
    /\ arg' = [session_id |-> s]
    /\ response' = [status |-> "success",
                    violation_prevention |->
                        GetViolationPreventionStatus(secondary_analysis_cache)]
    /\ op' = "api_violation_prevention_status"
    /\ steps' = steps + 1
    /\ UNCHANGED <<analysis_history, face_prev_pos, secondary_analysis_cache,
                   secondary_position_valid, secondary_camera_active, frame,
                   primary_frame, primary_analysis, stages_run>>

NextApi ==
    \/ \E s \in Uploaders, f \in SessionFrames : ApiValidateCamera(s, f)
    \/ \E s \in SessionIds : ApiShouldSuppressViolations(s)
    \/ \E s \in SessionIds : ApiSecondaryCameraViolations(s)
    \/ \E s \in SessionIds : ApiViolationPreventionStatus(s)

ApiSpec == InitApi /\ [][NextApi]_vars

(***************************************************************************)
(* The aggregation on any two sets of component analyses                   *)
(***************************************************************************)

\* hand_placement dicts: not visible, and visible with a confidence
ComplianceHands ==
    {[hands_visible |-> FALSE, confidence |-> One]}
    \cup {[hands_visible |-> TRUE, confidence |-> c] : c \in {Frac(5, 10), One}}

\* keyboard_visibility dicts: not visible, and visible with a confidence
ComplianceKeyboards ==
    {[keyboard_visible |-> FALSE, confidence |-> One]}
    \cup {[keyboard_visible |-> TRUE, confidence |-> c] : c \in {Frac(5, 10), One}}

\* face_coverage dicts: appropriate or not
ComplianceFaces ==
    {[face_coverage |-> [appropriate_coverage |-> b]] : b \in BOOLEAN}

\* workspace_compliance dicts; with no hands, no keyboard and score 1.0 the
\* weighted sum is exactly 0.3 or 0.4, and just below with the score before 1.0
ComplianceWorkspaces ==
    {[compliance_score |-> c] : c \in {0, Frac(5, 10), One - 1, One}}

ComplianceInputs ==
    {[hand_placement |-> h, keyboard_visibility |-> k,
      face_coverage |-> f, workspace_compliance |-> w] :
        h \in ComplianceHands, k \in ComplianceKeyboards,
        f \in ComplianceFaces, w \in ComplianceWorkspaces}

InitCompliance ==
    /\ Fresh
    /\ frame = None
    /\ arg \in [a : ComplianceInputs, b : ComplianceInputs]
    /\ op = "init"

\* _calculate_overall_compliance on arg.a and on arg.b
ComplianceCall ==
    /\ op = "init"
    /\ response' =
         [x \in {"a", "b"} |->
            CalculateOverallCompliance(arg[x].hand_placement, arg[x].keyboard_visibility,
                                       arg[x].face_coverage, arg[x].workspace_compliance)]
    /\ op' = "calculate_overall_compliance"
    /\ steps' = steps + 1
    /\ UNCHANGED <<analysis_history, face_prev_pos, secondary_analysis_cache,
                   secondary_position_valid,
                   secondary_camera_active, frame, primary_frame, primary_analysis,
                   stages_run, arg>>

NextCompliance == ComplianceCall

ComplianceSpec == InitCompliance /\ [][NextCompliance]_vars

(***************************************************************************)
(* The risk assessor on any overall score                                  *)
(***************************************************************************)

ScoreGrid ==
    {(k * One) \div 100 : k \in 0..100}
    \cup {Frac(5, 10) - 1, Frac(3, 10) - 1, Frac(2, 10) - 1}

InitRisk ==
    /\ Fresh
    /\ frame = None
    /\ arg \in {[overall_compliance |-> [overall_score |-> s]] : s \in ScoreGrid}
    /\ op = "init"

\* _assess_violation_risk(arg)
AssessCall ==
    /\ op = "init"
    /\ response' = AssessViolationRisk(arg)
    /\ op' = "assess_violation_risk"
    /\ steps' = steps + 1
    /\ UNCHANGED <<analysis_history, face_prev_pos, secondary_analysis_cache,
                   secondary_position_valid,
                   secondary_camera_active, frame, primary_frame, primary_analysis,
                   stages_run, arg>>

NextRisk == AssessCall

RiskSpec == InitRisk /\ [][NextRisk]_vars

(***************************************************************************)
(* Properties                                                              *)
(***************************************************************************)

\* C1: should_suppress_violations() is true if and only if a cached bundle
\* exists and its violation_prevention has risk_level low or medium and
\* confidence >= 0.7, over the whole risk_level x confidence grid; without a
\* cached bundle it is false.
C1_SuppressIffLowRiskAndConfident ==
    op = "should_suppress_violations" =>
        (response.should_suppress <=>
            /\ secondary_analysis_cache # None
            /\ "violation_prevention" \in DOMAIN secondary_analysis_cache
            /\ "risk_level" \in DOMAIN secondary_analysis_cache.violation_prevention
            /\ secondary_analysis_cache.violation_prevention.risk_level \in {"low", "medium"}
            /\ "confidence" \in DOMAIN secondary_analysis_cache.violation_prevention
            /\ secondary_analysis_cache.violation_prevention.confidence >= Frac(7, 10))

C1_Witness ==
    /\ op = "should_suppress_violations"
    /\ response.should_suppress
    /\ secondary_analysis_cache.violation_prevention.risk_level = "medium"
    /\ secondary_analysis_cache.violation_prevention.confidence = Frac(7, 10)

\* the last secondary frame received decoded to a black or low-variance image
DeadCamera ==
    /\ frame # None
    /\ frame.decodable
    /\ (frame.brightness < 10 \/ frame.variance < 10)

SomeSuppressed(violations) ==
    \E i \in 1..Len(violations) : Get(violations[i], "suppressed", FALSE)

\* C2: the gate never suppresses on a dead camera: whenever the secondary
\* frame received last was degenerate, should_suppress_violations() is false
\* and a video tick tags no primary-camera violation as suppressed.
C2_NeverSuppressOnDeadCamera ==
    DeadCamera =>
        /\ ~ShouldSuppressViolations(secondary_analysis_cache)
        /\ op \in {"video_single", "video_dual"} => ~SomeSuppressed(response.violations)

\* C3: when the gate is open during process_video_frame with the secondary
\* camera active, every violation not sourced from the secondary camera is
\* tagged suppressed with a reason, secondary-camera violations are never
\* tagged, nothing is removed from 'violations', 'active_violations' is
\* exactly the untagged ones and suppressed_count is the difference.
C3_SuppressionTagsAndRetains ==
    (/\ op \in {"video_single", "video_dual"}
     /\ secondary_camera_active
     /\ ShouldSuppressViolations(secondary_analysis_cache)) =>
        LET r == primary_analysis
            reported == PrimaryViolations(primary_frame)
                        \o GetSecondaryCameraViolations(secondary_analysis_cache)
            untagged == {i \in 1..Len(r.violations) : "suppressed" \notin DOMAIN r.violations[i]}
        IN /\ Len(r.violations) = Len(reported)
           /\ \A i \in 1..Len(r.violations) :
                LET v == r.violations[i]
                IN /\ v.type = reported[i].type
                   /\ Get(v, "source", "") # "secondary_camera" =>
                        /\ "suppressed" \in DOMAIN v /\ v.suppressed = TRUE
                        /\ "suppression_reason" \in DOMAIN v
                   /\ Get(v, "source", "") = "secondary_camera" =>
                        /\ "suppressed" \notin DOMAIN v
                        /\ v = reported[i]
           /\ Len(r.active_violations) = Cardinality(untagged)
           /\ \A j \in 1..Len(r.active_violations) :
                /\ "suppressed" \notin DOMAIN r.active_violations[j]
                /\ \E i \in untagged : r.violations[i] = r.active_violations[j]
           /\ r.violation_suppression.suppressed_count
                = Len(r.violations) - Len(r.active_violations)

C3_Witness ==
    /\ op \in {"video_single", "video_dual"}
    /\ secondary_camera_active
    /\ ShouldSuppressViolations(secondary_analysis_cache)
    /\ SomeSuppressed(primary_analysis.violations)
    /\ \E i \in 1..Len(primary_analysis.violations) :
            Get(primary_analysis.violations[i], "source", "") = "secondary_camera"
    /\ primary_analysis.violation_suppression.suppressed_count = 3

\* C4: a decodable frame with mean brightness < 10 or variance < 10 is
\* answered before any detector runs, with the fixed bundle: status success,
\* overall_score 0, compliance status black_screen, risk very_high at 0.9.
C4_DegenerateFrameShortCircuits ==
    (/\ op = "analyzed"
     /\ frame.decodable
     /\ (frame.brightness < 10 \/ frame.variance < 10)) =>
        /\ stages_run = {}
        /\ response.status = "success"
        /\ response.analysis.overall_compliance.overall_score = 0
        /\ response.analysis.overall_compliance.status = "black_screen"
        /\ response.violation_prevention.risk_level = "very_high"
        /\ response.violation_prevention.confidence = Frac(9, 10)

C4_Witness ==
    /\ op = "analyzed"
    /\ frame.decodable
    /\ frame.brightness >= 10
    /\ frame.variance = 9
    /\ response.analysis.overall_compliance.status = "black_screen"

\* C5: for an undecodable input the analyzer returns a bundle carrying every
\* field of the output schema (status, analysis, recommendations,
\* violation_prevention, stability_score), with status error, analysis null,
\* a non-empty recommendations list and risk_level unknown.
C5_ErrorBundleWellFormed ==
    (op = "analyzed" /\ ~frame.decodable) =>
        /\ {"status", "analysis", "recommendations", "violation_prevention",
            "stability_score"} \subseteq DOMAIN response
        /\ response.status = "error"
        /\ response.analysis = None
        /\ response.recommendations # <<>>
        /\ response.violation_prevention.risk_level = "unknown"

C7_TestViolationRiskAssessment ==
    op = "assess_violation_risk" =>
        /\ arg.overall_compliance.overall_score = Frac(9, 10) =>
            response.risk_level = "low" /\ response.confidence >= Frac(8, 10)
        /\ arg.overall_compliance.overall_score = Frac(2, 10) =>
            response.risk_level = "very_high" /\ response.confidence >= Frac(8, 10)

\* C8: in every success bundle, normal path and degenerate-frame path alike,
\* violation_prevention.score is the overall score of the bundle and
\* risk_level and confidence are the threshold mapping of that score.
C8_RiskIsFunctionOfScore ==
    (op = "analyzed" /\ response.status = "success") =>
        LET s == response.analysis.overall_compliance.overall_score
            vp == response.violation_prevention
            expected == IF s >= Frac(5, 10) THEN <<"low", Frac(9, 10)>>
                        ELSE IF s >= Frac(3, 10) THEN <<"medium", Frac(8, 10)>>
                        ELSE IF s >= Frac(2, 10) THEN <<"high", Frac(7, 10)>>
                        ELSE <<"very_high", Frac(9, 10)>>
        IN /\ vp.score = s
           /\ vp.risk_level = expected[1]
           /\ vp.confidence = expected[2]

C8_Witness ==
    /\ op = "analyzed"
    /\ response.status = "success"
    /\ stages_run # {}
    /\ response.violation_prevention.risk_level = "high"
    /\ response.violation_prevention.score
        = response.analysis.overall_compliance.overall_score

\* C9: the overall score of every bundle that carries an analysis lies in
\* [0,1], whatever the four detectors produce.
C9_OverallScoreInUnitInterval ==
    (op = "analyzed" /\ response.analysis # None) =>
        /\ 0 <= response.analysis.overall_compliance.overall_score
        /\ response.analysis.overall_compliance.overall_score <= One

C9_Witness ==
    /\ op = "analyzed"
    /\ response.analysis # None
    /\ response.analysis.keyboard_visibility.confidence = One
    /\ response.analysis.overall_compliance.overall_score >= Frac(95, 100)

\* C10: the hand_placement confidence of every success bundle is 0, 0.7 or
\* 0.9; it is 0 exactly when hands are not visible, 0.9 exactly when they
\* are visible and in typing position, and 0.7 when visible but not typing.
C10_HandConfidenceLevels ==
    (op = "analyzed" /\ response.status = "success") =>
        LET h == response.analysis.hand_placement
        IN /\ h.confidence \in {0, Frac(7, 10), Frac(9, 10)}
           /\ h.confidence = 0 <=> ~h.hands_visible
           /\ h.confidence = Frac(9, 10) <=>
                (h.hands_visible /\ h.hands_in_typing_position)
           /\ (h.hands_visible /\ ~h.hands_in_typing_position) =>
                h.confidence = Frac(7, 10)

C10_Witness ==
    /\ op = "analyzed"
    /\ response.status = "success"
    /\ response.analysis.hand_placement.hands_visible
    /\ ~response.analysis.hand_placement.hands_in_typing_position
    /\ response.analysis.hand_placement.confidence = Frac(7, 10)

\* C11: after any sequence of analyses the history holds at most 10
\* entries; an analysis that appends to a history below capacity puts its
\* entry last, and one that appends to a full history drops exactly the
\* oldest entry and keeps the others in arrival order.
C11_HistoryBoundedFifo ==
    /\ Len(analysis_history) <= history_size
    /\ (op = "analyzed" /\ stages_run # {}) =>
          analysis_history =
            IF Len(arg.analysis_history) < history_size
            THEN Append(arg.analysis_history, response.analysis)
            ELSE Append(Tail(arg.analysis_history), response.analysis)

C11_Witness ==
    /\ op = "analyzed"
    /\ stages_run # {}
    /\ Len(arg.analysis_history) = history_size
    /\ arg.analysis_history[1] # arg.analysis_history[2]
    /\ Len(analysis_history) = history_size
    /\ analysis_history[1] = arg.analysis_history[2]

\* C12: whenever the history holds fewer than 3 entries, the stability
\* score is exactly 0.5, as _calculate_stability_score computes it and as
\* the bundle returned by that call reports it.
C12_StabilityHalfBelowThree ==
    (op = "analyzed" /\ response.status = "success" /\ Len(analysis_history) < 3) =>
        /\ CalculateStabilityScore(analysis_history) = Frac(5, 10)
        /\ response.stability_score = Frac(5, 10)

\* C13: generate_secondary_camera_violations emits exactly the violations
\* of the five rules, each once, with the severity and confidence fixed for
\* its type and source secondary_camera; a bundle whose status is not
\* success yields the empty list.
C13_FiveViolationRules ==
    op = "generate_secondary_camera_violations" =>
        IF Get(arg, "status", "") # "success" THEN response = <<>>
        ELSE
        LET analysis == Get(arg, "analysis", <<>>)
            hand == Get(analysis, "hand_placement", <<>>)
            hands_visible == Get(hand, "hands_visible", FALSE)
            typing == Get(hand, "hands_in_typing_position", FALSE)
            keyboard_visible ==
                Get(Get(analysis, "keyboard_visibility", <<>>), "keyboard_visible", FALSE)
            quality ==
                Get(Get(Get(analysis, "face_coverage", <<>>), "face_coverage", <<>>),
                    "coverage_quality", "")
            workspace == Get(analysis, "workspace_compliance", <<>>)
            expected ==
                (IF ~hands_visible
                 THEN {<<"secondary_camera_hands_not_visible", "high", Frac(9, 10)>>}
                 ELSE {})
                \cup (IF ~keyboard_visible
                      THEN {<<"secondary_camera_keyboard_not_visible", "high", Frac(9, 10)>>}
                      ELSE {})
                \cup (IF quality = "too_detailed"
                      THEN {<<"secondary_camera_excessive_face_detail", "medium",
                              Frac(8, 10)>>}
                      ELSE {})
                \cup (IF "compliance_score" \in DOMAIN workspace
                         /\ workspace.compliance_score < Frac(4, 10)
                      THEN {<<"secondary_camera_workspace_non_compliant", "medium",
                              Frac(7, 10)>>}
                      ELSE {})
                \cup (IF hands_visible /\ ~typing
                      THEN {<<"secondary_camera_hands_not_in_typing_position", "medium",
                              Frac(6, 10)>>}
                      ELSE {})
        IN /\ {<<response[i].type, response[i].severity, response[i].confidence>> :
                    i \in 1..Len(response)} = expected
           /\ Len(response) = Cardinality(expected)
           /\ \A i \in 1..Len(response) : response[i].source = "secondary_camera"

C13_Witness ==
    /\ op = "generate_secondary_camera_violations"
    /\ arg.status = "success"
    /\ Len(response) = 3
    /\ response[1].type = "secondary_camera_keyboard_not_visible"
    /\ response[2].type = "secondary_camera_workspace_non_compliant"
    /\ response[3].type = "secondary_camera_hands_not_in_typing_position"

\* C14: determinism: the component results of an analysis (hand_placement,
\* keyboard_visibility, face_coverage, workspace_compliance,
\* overall_compliance) depend on the frame only, not on the frames the
\* analyzer saw before: they are those a fresh analyzer returns for it.
C14_ComponentsDeterministic ==
    (op = "analyzed" /\ response.status = "success") =>
        LET fresh == AnalyzeSecondaryCameraFrame(frame, <<>>, None).result.analysis
        IN \A c \in {"hand_placement", "keyboard_visibility", "face_coverage",
                      "workspace_compliance", "overall_compliance"} :
              response.analysis[c] = fresh[c]

\* C15: no state crosses sessions: what the gate endpoints return to a
\* session for which no frame was ever analyzed is what a manager without
\* any analysis returns, whatever was done for other sessions.
C15_NoStateCrossesSessions ==
    (arg # None /\ arg.session_id \notin Uploaders) =>
        /\ op = "api_should_suppress_violations" => ~response.should_suppress
        /\ op = "api_secondary_camera_violations" => response.violations = <<>>
        /\ op = "api_violation_prevention_status" =>
                response.violation_prevention = GetViolationPreventionStatus(None)

\* C16: in every bundle with status success the face coverage_quality is
\* one of none, appropriate, too_detailed, unknown.
C16_CoverageQualityEnum ==
    (op = "analyzed" /\ response.status = "success") =>
        response.analysis.face_coverage.face_coverage.coverage_quality
            \in {"none", "appropriate", "too_detailed", "unknown"}

\* C17: after a secondary frame of the session was analyzed through an
\* entry point, secondary_analysis_cache is the bundle returned for that
\* frame.
C17_CacheIsLatestBundle ==
    /\ op \in {"secondary_camera_frame", "secondary_analysis_direct"} =>
            secondary_analysis_cache = response.analysis
    /\ (op = "camera_validation" /\ "ai_analysis" \in DOMAIN response) =>
            secondary_analysis_cache = response.ai_analysis
    /\ (op = "video_dual" /\ response.secondary_camera_ai # <<>>) =>
            secondary_analysis_cache = response.secondary_camera_ai

\* C18: in a dual-camera video tick the suppression decision applied to the
\* primary-camera violations is the gate on the bundle produced from the
\* secondary frame of that tick, never on the bundle of an earlier tick.
C18_GateUsesSameTickBundle ==
    op = "video_dual" =>
        primary_analysis.violation_suppression.active
            = ShouldSuppressViolations(response.secondary_camera_ai)

\* C19: within one session analyses of secondary frames never interleave. No
\* two handlers are inside an analysis (detectors, history append, bundle,
\* cache write) at once, whether the frames come over the WebSocket or to the
\* direct endpoint; every analysis that ended left the analyzer as one
\* uninterrupted analyze_secondary_camera_frame on the state it began with
\* does; and the entries of the history are in the order their frames arrived.
C19_AnalysesNeverInterleave ==
    op \in {"received", "detected", "appended", "bundled", "cached", "sent"} =>
        /\ \A h1, h2 \in Handlers :
              InAnalysis(arg.pc[h1]) /\ InAnalysis(arg.pc[h2]) => h1 = h2
        /\ \A i, j \in 1..Len(arg.order) : i < j => arg.order[i] < arg.order[j]
        /\ Len(arg.order) = Len(analysis_history)
        /\ \A h \in Handlers :
              arg.locals[h].exit # None =>
                 LET l == arg.locals[h]
                     a == AnalyzeSecondaryCameraFrame(l.frame, l.entry.analysis_history,
                                                      l.entry.prev_pos)
                 IN /\ l.result = a.result
                    /\ l.exit.analysis_history = a.history
                    /\ l.exit.prev_pos = a.prev_pos

\* two entries are in the history, and one handler is inside its analysis,
\* about to append, while another has appended and not yet sent its answer
C19_Witness ==
    /\ Len(arg.order) >= 2
    /\ \E h1, h2 \in Handlers :
          /\ h1 # h2
          /\ arg.pc[h1] = "append"
          /\ arg.pc[h2] = "send"
          /\ arg.locals[h1].detected.history # <<>>
          /\ arg.locals[h2].exit.analysis_history # arg.locals[h2].entry.analysis_history

\* C20: the compliance status is a threshold function of overall_score
\* (>= 0.6 excellent, >= 0.4 good, >= 0.3 acceptable, otherwise
\* needs_improvement), and of two scores a <= b the status of b is never a
\* worse bucket than the status of a.
C20_StatusThresholdsMonotonic ==
    op = "calculate_overall_compliance" =>
        LET bucket == [needs_improvement |-> 0, acceptable |-> 1,
                       good |-> 2, excellent |-> 3]
        IN /\ \A x \in {"a", "b"} :
                LET r == response[x]
                IN /\ r.status = "excellent" <=> r.overall_score >= Frac(6, 10)
                   /\ r.status = "good" <=>
                        r.overall_score >= Frac(4, 10) /\ r.overall_score < Frac(6, 10)
                   /\ r.status = "acceptable" <=>
                        r.overall_score >= Frac(3, 10) /\ r.overall_score < Frac(4, 10)
                   /\ r.status = "needs_improvement" <=> r.overall_score < Frac(3, 10)
           /\ response.a.overall_score <= response.b.overall_score =>
                bucket[response.a.status] <= bucket[response.b.status]

\* a score of exactly 0.3 is acceptable, and so is a greater one below 0.4
C20_Witness ==
    /\ op = "calculate_overall_compliance"
    /\ response.a.overall_score = Frac(3, 10)
    /\ response.a.status = "acceptable"
    /\ response.b.overall_score > response.a.overall_score
    /\ response.b.overall_score < Frac(4, 10)
    /\ response.b.status = "acceptable"

\* C21: _calculate_overall_compliance computes overall_score = 0.3 hand_score
\* + 0.3 keyboard_score + 0.2 face_score + 0.2 workspace_score, where
\* hand_score (keyboard_score) is the detector's confidence if the hands (the
\* keyboard) are visible and 0 otherwise, face_score is 1.0 with appropriate
\* coverage and 0.5 without, and workspace_score is the compliance_score.
C21_WeightedSum ==
    op = "calculate_overall_compliance" =>
        \A x \in {"a", "b"} :
            LET c == response[x].component_scores
            IN /\ c.hands = IF arg[x].hand_placement.hands_visible
                             THEN arg[x].hand_placement.confidence ELSE 0
               /\ c.keyboard = IF arg[x].keyboard_visibility.keyboard_visible
                                THEN arg[x].keyboard_visibility.confidence ELSE 0
               /\ c.face = IF arg[x].face_coverage.face_coverage.appropriate_coverage
                            THEN One ELSE Frac(5, 10)
               /\ c.workspace = arg[x].workspace_compliance.compliance_score
               /\ response[x].overall_score =
                    (3 * c.hands + 3 * c.keyboard + 2 * c.face + 2 * c.workspace) \div 10

\* hands reported with confidence 1.0 but not visible count 0, beside a
\* visible keyboard of confidence 0.5 and a face without appropriate coverage
C21_Witness ==
    /\ op = "calculate_overall_compliance"
    /\ ~arg.a.hand_placement.hands_visible
    /\ arg.a.hand_placement.confidence = One
    /\ arg.a.keyboard_visibility.keyboard_visible
    /\ ~arg.a.face_coverage.face_coverage.appropriate_coverage
    /\ arg.a.workspace_compliance.compliance_score = One
    /\ response.a.overall_score = Frac(45, 100)

\* C22: with at least 3 history entries the stability score is
\* max(0, 1 - 2 * variance) of the overall scores of the most recent
\* min(5, n) entries, it lies in [0, 1], and entries older than the last 5 do
\* not influence it. The variance is the mean squared deviation, formed here
\* from the pairwise differences of the scores in thousandths.
C22_StabilityOfLastFive ==
    (op = "analyzed" /\ stages_run # {} /\ Len(analysis_history) >= 3) =>
        LET n == IF Len(analysis_history) < 5 THEN Len(analysis_history) ELSE 5
            s == [i \in 1..n |->
                    analysis_history[Len(analysis_history) - n + i]
                        .overall_compliance.overall_score \div (One \div 1000)]
            pairs == SeqSum([i \in 1..n |->
                        SeqSum([j \in 1..n |-> (s[i] - s[j]) * (s[i] - s[j])])])
            variance == ((pairs \div 2) \div (n * n)) \div 1000
            expected == IF One - 2 * variance * (One \div 1000) < 0 THEN 0
                        ELSE One - 2 * variance * (One \div 1000)
        IN /\ CalculateStabilityScore(analysis_history) = expected
           /\ response.stability_score = expected
           /\ expected >= 0 /\ expected <= One
           /\ CalculateStabilityScore(analysis_history)
                = CalculateStabilityScore(SubSeq(analysis_history,
                        Len(analysis_history) - n + 1, Len(analysis_history)))

\* more than 5 entries, the last 5 of one score (stability 1.0) and an older
\* entry of another score
C22_Witness ==
    /\ op = "analyzed"
    /\ stages_run # {}
    /\ Len(analysis_history) > 5
    /\ response.stability_score = One
    /\ analysis_history[1].overall_compliance.overall_score
         # analysis_history[Len(analysis_history)].overall_compliance.overall_score

\* C23: _analyze_face_coverage maps the outcome of the face classifier: zero
\* faces give appropriate_coverage true and quality none; faces without
\* violations give appropriate_coverage false and quality too_detailed; faces
\* with at least one violation give appropriate_coverage true and quality
\* appropriate; a failure of the classifier fails open with
\* appropriate_coverage true, quality unknown, confidence 0 and
\* analysis_quality error.
C23_FaceCoverageMapping ==
    (op = "analyzed" /\ stages_run # {}) =>
        LET face_analysis == response.analysis.face_coverage
            coverage == face_analysis.face_coverage
            results == face_analysis.face_detection_results
        IN IF frame.face_raises
           THEN /\ coverage.appropriate_coverage
                /\ coverage.coverage_quality = "unknown"
                /\ face_analysis.confidence = 0
                /\ face_analysis.analysis_quality = "error"
           ELSE /\ face_analysis.analysis_quality = "good"
                /\ results.faces_detected = 0 =>
                      coverage.appropriate_coverage /\ coverage.coverage_quality = "none"
                /\ (results.faces_detected > 0 /\ results.violations = <<>>) =>
                      ~coverage.appropriate_coverage
                      /\ coverage.coverage_quality = "too_detailed"
                /\ (results.faces_detected > 0 /\ results.violations # <<>>) =>
                      coverage.appropriate_coverage
                      /\ coverage.coverage_quality = "appropriate"

\* one frontal face without violations is too detailed
C23_Witness ==
    /\ op = "analyzed"
    /\ stages_run # {}
    /\ ~frame.face_raises
    /\ response.analysis.face_coverage.face_detection_results.faces_detected = 1
    /\ response.analysis.face_coverage.face_detection_results.violations = <<>>
    /\ response.analysis.face_coverage.face_coverage.coverage_quality = "too_detailed"

\* C24: whichever of the four detector stages raise on a decodable frame that
\* is not degenerate, analyze_secondary_camera_frame returns status success;
\* a failed hand or keyboard stage yields not visible with confidence 0, a
\* failed workspace stage compliance_score 0, a failed face stage fails open,
\* each with analysis_quality error; the overall score lies in [0,1] and the
\* bundle's analysis is appended to the history.
C24_StageErrorsRecovered ==
    (op = "analyzed" /\ frame.decodable /\ ~IsBlackOrInvalidFrame(frame)) =>
        LET analysis == response.analysis
        IN /\ response.status = "success"
           /\ frame.hand_raises =>
                /\ ~analysis.hand_placement.hands_visible
                /\ analysis.hand_placement.confidence = 0
                /\ analysis.hand_placement.analysis_quality = "error"
           /\ frame.keyboard_raises =>
                /\ ~analysis.keyboard_visibility.keyboard_visible
                /\ analysis.keyboard_visibility.confidence = 0
                /\ analysis.keyboard_visibility.analysis_quality = "error"
           /\ frame.workspace_raises =>
                /\ analysis.workspace_compliance.compliance_score = 0
                /\ analysis.workspace_compliance.analysis_quality = "error"
           /\ frame.face_raises =>
                /\ analysis.face_coverage.face_coverage.appropriate_coverage
                /\ analysis.face_coverage.analysis_quality = "error"
           /\ analysis.overall_compliance.overall_score >= 0
           /\ analysis.overall_compliance.overall_score <= One
           /\ analysis_history = <<analysis>>

\* all four stages raise: only the face's fail-open 1.0 counts, 0.2 overall
C24_Witness ==
    /\ op = "analyzed"
    /\ frame.decodable /\ ~IsBlackOrInvalidFrame(frame)
    /\ frame.hand_raises /\ frame.keyboard_raises
    /\ frame.face_raises /\ frame.workspace_raises
    /\ response.status = "success"
    /\ response.analysis.overall_compliance.overall_score = Frac(2, 10)
    /\ Len(analysis_history) = 1

\* C25: when neither the object classifier nor the edge rectangles report a
\* keyboard or laptop, the keyboard stage applies the hand-inference fallback
\* (keyboard_visible true, confidence 0.5) only if the hands were detected in
\* typing position; without them keyboard_visible is false and the violation
\* generator emits secondary_camera_keyboard_not_visible.
C25_FallbackOnlyWithTypingHands ==
    LET keyboard == response.analysis.keyboard_visibility
        hands == response.analysis.hand_placement
        violations == GenerateSecondaryCameraViolations(response)
    IN (/\ op = "analyzed" /\ stages_run # {}
        /\ ~frame.keyboard_raises
        /\ keyboard.keyboard_detections = <<>>
        /\ \A i \in 1..Len(keyboard.keyboard_like_regions) :
              keyboard.keyboard_like_regions[i] = HandInferenceRegion) =>
           /\ keyboard.keyboard_visible <=> hands.hands_in_typing_position
           /\ ~hands.hands_in_typing_position =>
                \E i \in 1..Len(violations) :
                    violations[i].type = "secondary_camera_keyboard_not_visible"

\* C26: for every bundle the analyzer returns and that is then cached,
\* should_suppress_violations() is true if and only if the bundle has status
\* success and an overall score >= 0.3; the confidence condition never
\* changes the outcome, since the analyzer pairs low with 0.9 and medium
\* with 0.8.
C26_GateIsScoreThreshold ==
    (op = "gate_queried" /\ secondary_analysis_cache # None) =>
        LET bundle == secondary_analysis_cache
            risk == bundle.violation_prevention
        IN /\ response.should_suppress <=>
                /\ bundle.status = "success"
                /\ bundle.analysis.overall_compliance.overall_score >= Frac(3, 10)
           /\ risk.risk_level = "low" => risk.confidence = Frac(9, 10)
           /\ risk.risk_level = "medium" => risk.confidence = Frac(8, 10)
           /\ response.should_suppress <=> risk.risk_level \in {"low", "medium"}

\* a bundle of medium risk at an overall score below 0.5 opens the gate
C26_Witness ==
    /\ op = "gate_queried"
    /\ response.should_suppress
    /\ secondary_analysis_cache.violation_prevention.risk_level = "medium"
    /\ secondary_analysis_cache.analysis.overall_compliance.overall_score < Frac(5, 10)

\* C27: an analysis that short-circuits on a degenerate frame or fails to
\* decode leaves analysis_history unchanged; a call that reaches the
\* aggregator adds exactly its own analysis as the newest entry (the oldest
\* leaving a full history); so no entry, and no stability score, comes from a
\* black or undecodable frame.
C27_OnlyAggregatedCallsEnterHistory ==
    op = "analyzed" =>
        /\ IF ~frame.decodable \/ IsBlackOrInvalidFrame(frame)
           THEN /\ analysis_history = arg.analysis_history
                /\ CalculateStabilityScore(analysis_history)
                     = CalculateStabilityScore(arg.analysis_history)
           ELSE analysis_history =
                    IF Len(arg.analysis_history) < history_size
                    THEN arg.analysis_history \o <<response.analysis>>
                    ELSE Tail(arg.analysis_history) \o <<response.analysis>>
        /\ \A i \in 1..Len(analysis_history) :
              analysis_history[i].overall_compliance.status # "black_screen"

\* an undecodable frame, the fifth call or later, leaves the three entries
\* of the history as they were
C27_Witness ==
    /\ op = "analyzed"
    /\ ~frame.decodable
    /\ Len(analysis_history) = 3
    /\ analysis_history = arg.analysis_history
    /\ steps >= 5

\* C28: in the result of a dual-camera video tick every violation generated
\* from the cached secondary bundle appears exactly once in violations and
\* once in active_violations.
C28_SecondaryViolationsOnce ==
    op = "video_dual" =>
        LET generated == GetSecondaryCameraViolations(secondary_analysis_cache)
            Count(s, v) == Cardinality({i \in 1..Len(s) : s[i] = v})
        IN \A k \in 1..Len(generated) :
              /\ Count(response.violations, generated[k]) = 1
              /\ Count(response.active_violations, generated[k]) = 1

\* C29: while secondary_camera_active is false, process_video_frame tags no
\* violation as suppressed and adds no secondary-camera violation, whatever
\* bundle is cached; active_violations equals violations and suppressed_count
\* is 0.
C29_InactiveCameraNeverSuppresses ==
    (op = "video_single" /\ ~secondary_camera_active) =>
        /\ \A i \in 1..Len(primary_analysis.violations) :
              /\ ~Get(primary_analysis.violations[i], "suppressed", FALSE)
              /\ Get(primary_analysis.violations[i], "source", "primary")
                    # "secondary_camera"
        /\ primary_analysis.active_violations = primary_analysis.violations
        /\ primary_analysis.violation_suppression.suppressed_count = 0
        /\ ~primary_analysis.violation_suppression.active

\* the camera is inactive while the cached bundle would open the gate and
\* would yield secondary violations, and the primary frame has violations
C29_Witness ==
    /\ op = "video_single"
    /\ ~secondary_camera_active
    /\ ShouldSuppressViolations(secondary_analysis_cache)
    /\ GetSecondaryCameraViolations(secondary_analysis_cache) # <<>>
    /\ primary_analysis.violations # <<>>

====
